---- MODULE Spec2Model ----
(***************************************************************************)
(* Model of the WebView bridge: the host side (src/lib/bridge.ts) and the  *)
(* client script injected into the page (src/lib/bridge-client.ts).        *)
(*                                                                         *)
(* Strings stand for JavaScript strings.  The empty string stands for a    *)
(* falsy value (undefined, null or '').  A message protocol 'app://x' is    *)
(* the pair <<"app://", "x">>, so startsWith and replace are computed on    *)
(* its two parts.                                                          *)
(***************************************************************************)
EXTENDS Integers, Sequences, FiniteSets, TLC

VARIABLES
    handlers,         \* bridge.ts: the handler registry (a Map, action -> wrapped handler)
    webViewInstance,  \* bridge.ts: the WebView object that is attached, or null
    invs,             \* one record per running wrappedHandler closure (responded, timer)
    hostCalls,        \* one record per callWeb promise (state, timer)
    toHost,           \* postMessage strings on their way to handleBridgeMessage (FIFO)
    toWeb,            \* injected scripts on their way to the page (FIFO)
    sendLog,          \* history: every sendToWeb call, with the invocation that made it
    last,             \* history: the last handleBridgeMessage call and its result
    pendingRequests,  \* bridge-client.ts: the keys of the pendingRequests Map
    calls,            \* one record per AppBridge.call promise (state, timer)
    clientThrew,      \* TRUE once an exception escaped a client-side callback
    webSeen,          \* callWeb requests the page has received, with the replies it sent
    converting,       \* client operations waiting for the FileReader, in issue order
    scripts,          \* history: the script texts getBridgeClientScript has returned
    appBridge,        \* window.AppBridge of the loaded page: BRIDGE_TOKEN, the script that made it
    listeners,        \* AppBridge._listeners (action -> array of functions)
    heard,            \* history: every call of a callback given to on, once or waitFor
    waits,            \* one record per waitFor promise (state, timer)
    removed,          \* history: the <<action, callback>> of the off calls made since the
                      \* last on or once call with that action and callback
    statusBar,        \* the status bar of the device, as StatusBar.setHidden/setBarStyle left it
    savedStatusBarState,  \* bridge.ts: savedStatusBarState of the status bar handlers
    responded,        \* history: the respond calls of the built-in handlers
    mounted,          \* webview-container.tsx: TRUE while WebViewContainer is mounted
    webViewError,     \* useState error: TRUE when it holds a WebViewError
    webViewKey,       \* useState webViewKey
    emptyBodyRetryCount,  \* emptyBodyRetryCount.current
    ref,              \* ref.current: the WebView object that is mounted, or null
    webViews,         \* the number of WebView objects made so far
    audioChunkSubscription,  \* bridges/microphone: audioChunkSubscription, or null (0)
    audioListeners,   \* the onAudioChunk listeners the Microphone module holds
    isStreaming,      \* the Microphone module: TRUE while it records
    subscriptions,    \* the number of Microphone.addListener calls made so far
    cameraState,      \* bridges/camera: cameraState (isActive, eventKey, frameInterval)
    cameraRef,        \* bridges/camera: cameraRef, TRUE when it holds a CameraView
    intervals,        \* the setInterval timers that run (id -> the eventKey of its closure)
    intervalIds       \* the number of setInterval calls made so far

vars == <<handlers, webViewInstance, invs, hostCalls, toHost, toWeb, sendLog, last,
          pendingRequests, calls, clientThrew, webSeen, converting,
          scripts, appBridge, listeners, heard, waits, removed,
          statusBar, savedStatusBarState, responded,
          mounted, webViewError, webViewKey, emptyBodyRetryCount, ref, webViews,
          audioChunkSubscription, audioListeners, isStreaming, subscriptions,
          cameraState, cameraRef, intervals, intervalIds>>

pageVars == <<scripts, appBridge, listeners, heard, waits, removed>>

\* the state of the status bar handlers and of what they drive
statusBarVars == <<statusBar, savedStatusBarState, responded>>

\* the state of WebViewContainer
containerVars == <<mounted, webViewError, webViewKey, emptyBodyRetryCount, ref, webViews>>

\* the state of the microphone handlers and of the Microphone module
microphoneVars == <<audioChunkSubscription, audioListeners, isStreaming, subscriptions>>

\* the state of the camera handlers and their timers
cameraVars == <<cameraState, cameraRef, intervals, intervalIds>>

deviceVars == <<microphoneVars, cameraVars>>

\* the state around the bridge
builtInVars == <<statusBarVars, containerVars, deviceVars>>

hostVars == <<handlers, webViewInstance, invs, hostCalls, sendLog, last>>

\* WebView objects are numbered in the order in which they are made; null is 0
NoWebView == 0
SomeWebView == 1

\* 'if (webViewInstance)'
Attached == webViewInstance /= NoWebView
clientVars == <<pendingRequests, calls, clientThrew>>

----------------------------------------------------------------------------
(* Bounds of the model *)

MaxCalls == 1        \* AppBridge.call requests
MaxHostCalls == 1    \* callWeb requests
MaxPosted == 2       \* messages posted to the host in total
MaxRespond == 2      \* respond calls made by one handler invocation
MaxReplies == 2      \* replies the page sends for one callWeb request
MaxQueue == 1        \* posted messages the host has not handled yet
MaxInFlight == 2     \* AppBridge.call requests where several are in flight at once
MaxConverting == 1   \* client operations waiting for the FileReader at once
MaxEvents == 2       \* sendToWeb calls the application makes itself
MaxScripts == 2      \* calls of getBridgeClientScript
MaxLoads == 2        \* documents the WebView loads
MaxListeners == 2    \* functions in the arrays of _listeners at once
MaxWrappers == 2     \* AppBridge.once calls
MaxWaits == 2        \* AppBridge.waitFor calls
MaxBuiltIn == 3      \* requests the built-in handlers answer
MaxWebViews == 3     \* WebView objects WebViewContainer makes
MaxRuns == 2         \* runs of a client script in one window
MaxChunks == 2       \* sendToWeb calls made for audio chunks
MaxFrames == 2       \* sendToWeb calls made for camera frames

----------------------------------------------------------------------------
(* Values *)

Actions == {"echo"}
OtherActions == {"log"}            \* a second action of the application
Data == {"d1"}
LateData == {"d1", "d2"}           \* data of respond calls made after the handler returned
ErrorMessages == {"boom"}
NonError == "<non-Error>"          \* a thrown value that is not an Error instance
Thrown == ErrorMessages \cup {NonError}

NoId == ""                         \* no requestId in the message
NoError == ""                      \* no error text in a reply

SECURITY_TOKEN == "token"
ForeignTokens == {"", "forged"}    \* absent, or not the session token

AppScheme == "app://"
NoProtocol == ""                   \* the protocol field is missing or empty
NonString == "<number>"            \* the protocol field holds a value that is not a string
OtherSchemes == {"native://", "xapp://"}

\* strings posted to the host that hold no message object: text that is not
\* JSON, the JSON text null, and JSON texts of a number or a string
InvalidJSON == {"not json"}
NullJSON == "null"
ScalarJSON == {"42"}
RawTexts == { [text |-> t] : t \in InvalidJSON \cup {NullJSON} \cup ScalarJSON }

\* AppBridge.call / callWeb: Date.now() + '-' + random; modelled as a fresh name
RequestId(n) == "r" \o ToString(n)
HostRequestId(n) == "h" \o ToString(n)

----------------------------------------------------------------------------
(* Records *)

\* payload of a host -> page message (bridgeResponse, or a callWeb request)
WebPayload(requestId, success, data, error, responseAction) ==
    [requestId |-> requestId, success |-> success, data |-> data,
     error |-> error, responseAction |-> responseAction]

\* payload of a page -> host message; a reply to callWeb is {success, data, error}
HostPayload(success, data, error) ==
    [success |-> success, data |-> data, error |-> error]

EmptyPayload == HostPayload(FALSE, "", NoError)

\* payloads that are not objects: undefined (the message has no payload field),
\* and JSON scalars, falsy and truthy
Undefined == [json |-> "undefined"]
FalsyScalars == { [json |-> v] : v \in {"null", "0", "false", "''"} }
TruthyScalars == { [json |-> v] : v \in {"42", "'text'"} }

IsObject(value) == "json" \notin DOMAIN value

\* reading a property of the value throws a TypeError
IsNullish(value) == value = Undefined \/ value = [json |-> "null"]

\* numbers JSON has no text for
NotJSON == { [json |-> v] : v \in {"NaN"} }

\* an object with content, {x: 1}
SomeObject == HostPayload(TRUE, "d1", NoError)

\* the values a JSON text can stand for
JSONValues == {EmptyPayload, SomeObject} \cup FalsyScalars \cup TruthyScalars

\* a Blob or File, and the descriptor toBase64 resolves with for it,
\* {__type: 'base64', data, mimeType, name, size}
Blob == [blob |-> "b1"]
ToBase64(data) == [base64 |-> data.blob]
IsBlob(value) == "blob" \in DOMAIN value

\* objects whose values are strings and booleans: a reply, a descriptor
IsFlat(value) == "success" \in DOMAIN value \/ "base64" \in DOMAIN value

\* payloads with the keys file and form: a text or a Blob under file, a text or
\* an object with a Blob in it under form
Text == [json |-> "'text'"]
FormPayloads == { [file |-> f, form |-> g] : f \in {Text, Blob}, g \in {Text, [file |-> Blob]} }

\* the own keys of the payload whose value is a Blob or File
BlobKeys(payload) ==
    IF ~IsObject(payload) \/ IsFlat(payload) \/ IsBlob(payload) THEN {}
    ELSE { key \in DOMAIN payload : IsBlob(payload[key]) }

\* the value the promise of processPayload resolves with: the payload itself
\* when no own key holds a Blob, else a copy with those keys converted
ProcessPayload(payload) ==
    IF BlobKeys(payload) = {} THEN payload
    ELSE [key \in DOMAIN payload |->
             IF key \in BlobKeys(payload) THEN ToBase64(payload[key]) ELSE payload[key]]

\* what JSON.stringify writes for an object: a Blob has no enumerable property
\* of its own and is written as {}
RECURSIVE Serialise(_)
Serialise(value) ==
    CASE IsBlob(value) -> EmptyPayload
      [] ~IsObject(value) \/ IsFlat(value) -> value
      [] OTHER -> [key \in DOMAIN value |-> Serialise(value[key])]

\* JSON.stringify for the value of the payload key: the key is left out for
\* undefined and a number without a JSON text is written as null
Stringify(value) ==
    CASE value = Undefined -> [omitted |-> TRUE]
      [] value \in NotJSON -> [literal |-> "null"]
      [] ~IsObject(value) -> [literal |-> value.json]
      [] OTHER -> [object |-> Serialise(value)]

\* JSON.parse for the payload key
Parse(text) ==
    CASE "omitted" \in DOMAIN text -> Undefined
      [] "literal" \in DOMAIN text -> [json |-> text.literal]
      [] OTHER -> text.object

\* payload || {} of AppBridge.send and AppBridge.call
OrEmpty(payload) ==
    IF payload = Undefined \/ payload \in FalsyScalars THEN EmptyPayload ELSE payload

\* the object JSON.parse yields for a posted message; arg is the payload
\* argument of the call that built the message, for a message the page builds
\* itself the payload it put in
Message(protocol, payload, requestId, token) ==
    [protocol |-> protocol, payload |-> payload, requestId |-> requestId, token |-> token,
     arg |-> payload]

\* what the body of a registered handler does while it runs synchronously:
\* it may call registerHandler for its own action (register: "none", or the
\* once option of the new registration), it calls respond once for each
\* element of responds, then returns, throws, or returns a promise that is
\* still pending
ScriptsThat(registers) ==
    { [register |-> r, responds |-> ds, ending |-> e, thrown |-> t] :
        r \in registers,
        ds \in UNION { [1..k -> Data] : k \in 0..MaxRespond },
        e \in {"return", "throw", "async"},
        t \in Thrown }

\* handler bodies that leave the registry alone
Scripts == ScriptsThat({"none"})

\* handler bodies that only read their payload and return
QuietScripts ==
    { s \in Scripts : s.responds = <<>> /\ s.ending = "return" /\ s.thrown = NonError }

\* handler bodies that register a handler for their own action and return
ReentrantScripts == { s \in ScriptsThat({"once", "keep"}) : s.ending = "return" }

----------------------------------------------------------------------------
(* Promises: resolve and reject act on a pending promise only; settles     *)
(* counts the resolve and reject calls made on the promise                *)

Settle(p, state, value) ==
    IF p.state = "pending"
    THEN [p EXCEPT !.state = state, !.value = value, !.settles = @ + 1]
    ELSE [p EXCEPT !.settles = @ + 1]

\* clearTimeout: an armed timer never fires; any other timer is left as it is
ClearTimeout(timer) == IF timer = "armed" THEN "cleared" ELSE timer

----------------------------------------------------------------------------
(* Host side, src/lib/bridge.ts.  h is the host state a call works on:      *)
(* [handlers, invs, hostCalls, sendLog, toWeb].                            *)

\* mutant of MapSet: an existing entry is kept
MapSetIfAbsent(m, k, v) == [x \in DOMAIN m \cup {k} |-> IF x \in DOMAIN m THEN m[x] ELSE v]

MapSet(m, k, v) == [x \in DOMAIN m \cup {k} |-> IF x = k THEN v ELSE m[x]]
MapDelete(m, k) == [x \in DOMAIN m \ {k} |-> m[x]]
EmptyMap == [x \in {} |-> x]

\* mutant of SendToWeb: without a WebView the script is kept and runs once a
\* WebView is there
SendToWebQueues(h, action, payload, inv) ==
    [h EXCEPT !.sendLog = Append(@, [action |-> action, payload |-> payload, inv |-> inv,
                                     injected |-> Attached]),
              !.toWeb = Append(@, [action |-> action, payload |-> payload])]

\* sendToWeb: without a WebView it only warns; otherwise it injects one script
SendToWeb(h, action, payload, inv) ==
    LET entry == [action |-> action, payload |-> payload, inv |-> inv,
                  injected |-> Attached]
    IN  IF ~Attached
        THEN [h EXCEPT !.sendLog = Append(@, entry)]
        ELSE [h EXCEPT !.sendLog = Append(@, entry),
                       !.toWeb = Append(@, [action |-> action, payload |-> payload])]

\* mutant of Respond: the reply is sent only while the action of the
\* invocation is registered
RespondIfRegistered(h, i, responseData) ==
    IF h.invs[i].requestId /= NoId /\ h.invs[i].action \in DOMAIN h.handlers
    THEN SendToWeb(h, "bridgeResponse",
                   WebPayload(h.invs[i].requestId, TRUE, responseData, NoError, ""), i)
    ELSE h

\* mutant of Respond: no 'if (message.requestId)'
RespondAlways(h, i, responseData) ==
    SendToWeb(h, "bridgeResponse",
              WebPayload(h.invs[i].requestId, TRUE, responseData, NoError, ""), i)

\* the respond closure handleBridgeMessage gives to the handler
Respond(h, i, responseData) ==
    IF h.invs[i].requestId /= NoId
    THEN SendToWeb(h, "bridgeResponse",
                   WebPayload(h.invs[i].requestId, TRUE, responseData, NoError, ""), i)
    ELSE h

\* the data the handler-timeout timer passes to respond
TimeoutData(action) == "{success:false,error:'Handler timeout: " \o action \o "'}"

\* mutant of WrappedRespond: responded is one flag of the registration, shared
\* by all invocations of the action, instead of a variable of each invocation
WrappedRespondSharedFlag(h, i, data) ==
    IF \E j \in DOMAIN h.invs : h.invs[j].action = h.invs[i].action /\ h.invs[j].responded
    THEN h
    ELSE Respond([h EXCEPT !.invs[i].responded = TRUE,
                           !.invs[i].timer = ClearTimeout(@)], i, data)

\* mutant of WrappedRespond: no 'if (responded) return'
WrappedRespondNoGuard(h, i, data) ==
    Respond([h EXCEPT !.invs[i].responded = TRUE,
                      !.invs[i].timer = ClearTimeout(@)], i, data)

\* wrappedRespond of registerHandler
WrappedRespond(h, i, data) ==
    IF h.invs[i].responded
    THEN h
    ELSE Respond([h EXCEPT !.invs[i].responded = TRUE,
                           !.invs[i].timer = ClearTimeout(@)], i, data)

\* the setTimeout callback of wrappedHandler
TimerCallback(h, i) ==
    LET h1 == [h EXCEPT !.invs[i].timer = "fired"]
    IN  IF ~h.invs[i].responded
        THEN Respond([h1 EXCEPT !.invs[i].responded = TRUE], i,
                     TimeoutData(h.invs[i].action))
        ELSE h1

RECURSIVE RunResponds(_, _, _)
RunResponds(h, i, ds) ==
    IF ds = <<>> THEN h
    ELSE RunResponds(WrappedRespond(h, i, Head(ds)), i, Tail(ds))

\* the handler body calls registerHandler(action, ...) for its own action; the
\* invocation record keeps what was registered and whether the running handler
\* had the once option
RunRegister(h, i, action, reg, register) ==
    IF register = "none" THEN h
    ELSE [h EXCEPT !.handlers = MapSet(@, action, [kind |-> "user", timeout |-> FALSE,
                                                   once |-> register = "once", call |-> 0]),
                   !.invs[i].registered = register,
                   !.invs[i].inOnce = reg.once]

UserRegistration(timeout, once) ==
    [kind |-> "user", timeout |-> timeout, once |-> once, call |-> 0]
ResponseRegistration(n) ==
    [kind |-> "response", timeout |-> FALSE, once |-> FALSE, call |-> n]

ResponseHandlerName(requestId) == "__response_" \o requestId

\* mutant of CaughtMessage: the catch block ignores the message of the Error
CaughtMessageAlwaysUnknown(thrown) == "Unknown error"

\* the text handleBridgeMessage puts in the failure reply for a caught value
CaughtMessage(thrown) == IF thrown \in ErrorMessages THEN thrown ELSE "Unknown error"

\* a new wrappedHandler closure: responded = false, timer set when options.timeout
\* the first argument of handler(message.payload, respond)
HandlerPayload(msg) == msg.payload

\* the invocation wrappedHandler starts for a message; payload is the value the
\* handler body receives
NewInvocation(msg, action, reg) ==
    [action |-> action, requestId |-> msg.requestId, responded |-> FALSE,
     timer |-> IF reg.timeout THEN "armed" ELSE "none",
     registered |-> "none", inOnce |-> FALSE,
     outcome |-> "running", error |-> "",
     payload |-> HandlerPayload(msg)]

\* mutant of ResponseHandler: the one-shot handler resolves without looking at
\* response.success
ResponseHandlerAlwaysResolves(h, n, response) ==
    LET h1 == [h EXCEPT !.hostCalls[n].timer = ClearTimeout(@),
                        !.handlers = MapDelete(@, ResponseHandlerName(h.hostCalls[n].id))]
    IN  [h1 EXCEPT !.hostCalls[n] = Settle(@, "resolved", response.data)]

\* the one-shot handler callWeb registers for its reply; reading
\* response.success of undefined or null throws, after the timer was cleared
\* and the handler unregistered
ResponseHandler(h, n, response) ==
    LET h1 == [h EXCEPT !.hostCalls[n].timer = ClearTimeout(@),
                        !.handlers = MapDelete(@, ResponseHandlerName(h.hostCalls[n].id))]
    IN  CASE IsNullish(response) -> h1
          [] ~IsObject(response) ->
               [h1 EXCEPT !.hostCalls[n] = Settle(@, "rejected", "Unknown error")]
          [] response.success ->
               [h1 EXCEPT !.hostCalls[n] = Settle(@, "resolved", response.data)]
          [] OTHER ->
               [h1 EXCEPT !.hostCalls[n] =
                   Settle(@, "rejected",
                          IF response.error /= NoError THEN response.error
                          ELSE "Unknown error")]

\* the catch block of handleBridgeMessage for the TypeError of the one-shot
\* handler
ResponseHandlerCaught(h, msg) ==
    IF IsNullish(msg.payload) /\ msg.requestId /= NoId
    THEN SendToWeb(h, "bridgeResponse",
                   WebPayload(msg.requestId, FALSE, "", "<TypeError>", ""), 0)
    ELSE h

\* mutant of UserHandler: the once option is ignored, the entry stays
UserHandlerKeepsOnce(h, msg, action, reg, script) ==
    LET i  == Len(h.invs) + 1
        h1 == [h EXCEPT !.invs = Append(@, NewInvocation(msg, action, reg))]
        h3 == RunResponds(RunRegister(h1, i, action, reg, script.register), i, script.responds)
    IN  CASE script.ending = "throw" ->
               LET h4 == [h3 EXCEPT !.invs[i].outcome = "threw",
                                    !.invs[i].error = script.thrown]
               IN  IF msg.requestId /= NoId
                   THEN SendToWeb(h4, "bridgeResponse",
                                  WebPayload(msg.requestId, FALSE, "",
                                             CaughtMessage(script.thrown), ""), i)
                   ELSE h4
          [] script.ending = "async" -> [h3 EXCEPT !.invs[i].outcome = "async"]
          [] OTHER -> [h3 EXCEPT !.invs[i].outcome = "returned"]

\* mutant of UserHandler: the once entry is deleted after the handler body ran
UserHandlerDeletesAfter(h, msg, action, reg, script) ==
    LET i  == Len(h.invs) + 1
        h1 == [h EXCEPT !.invs = Append(@, NewInvocation(msg, action, reg))]
        h2 == RunResponds(RunRegister(h1, i, action, reg, script.register), i, script.responds)
        h3 == IF reg.once THEN [h2 EXCEPT !.handlers = MapDelete(@, action)] ELSE h2
    IN  CASE script.ending = "throw" ->
               LET h4 == [h3 EXCEPT !.invs[i].outcome = "threw",
                                    !.invs[i].error = script.thrown]
               IN  IF msg.requestId /= NoId
                   THEN SendToWeb(h4, "bridgeResponse",
                                  WebPayload(msg.requestId, FALSE, "",
                                             CaughtMessage(script.thrown), ""), i)
                   ELSE h4
          [] script.ending = "async" -> [h3 EXCEPT !.invs[i].outcome = "async"]
          [] OTHER -> [h3 EXCEPT !.invs[i].outcome = "returned"]

\* wrappedHandler for a handler registered by the application, and the try/catch
\* handleBridgeMessage puts around it
UserHandler(h, msg, action, reg, script) ==
    LET i  == Len(h.invs) + 1
        h1 == [h EXCEPT !.invs = Append(@, NewInvocation(msg, action, reg))]
        h2 == IF reg.once THEN [h1 EXCEPT !.handlers = MapDelete(@, action)] ELSE h1
        h3 == RunResponds(RunRegister(h2, i, action, reg, script.register), i, script.responds)
    IN  CASE script.ending = "throw" ->
               LET h4 == [h3 EXCEPT !.invs[i].outcome = "threw",
                                    !.invs[i].error = script.thrown]
               IN  IF msg.requestId /= NoId
                   THEN SendToWeb(h4, "bridgeResponse",
                                  WebPayload(msg.requestId, FALSE, "",
                                             CaughtMessage(script.thrown), ""), i)
                   ELSE h4
          [] script.ending = "async" -> [h3 EXCEPT !.invs[i].outcome = "async"]
          [] OTHER -> [h3 EXCEPT !.invs[i].outcome = "returned"]

\* mutant of Dispatch: a message for an action without a handler is dropped,
\* whether or not it carries a requestId
DispatchUnknownSilent(h, msg, script) ==
    LET action == msg.protocol[2]
    IN  IF action \in DOMAIN h.handlers
        THEN IF h.handlers[action].kind = "response"
             THEN ResponseHandler(h, h.handlers[action].call, msg.payload)
             ELSE UserHandler(h, msg, action, h.handlers[action], script)
        ELSE h

\* handleBridgeMessage after the protocol check: look the handler up and run it
Dispatch(h, msg, script) ==
    LET action == msg.protocol[2]
    IN  IF action \in DOMAIN h.handlers
        THEN IF h.handlers[action].kind = "response"
             THEN ResponseHandlerCaught(
                      ResponseHandler(h, h.handlers[action].call, msg.payload), msg)
             ELSE UserHandler(h, msg, action, h.handlers[action], script)
        ELSE IF msg.requestId /= NoId
             THEN SendToWeb(h, "bridgeResponse",
                            WebPayload(msg.requestId, FALSE, "",
                                       "Unknown action: " \o action, ""), 0)
             ELSE h

\* messageData is a string with no message object in it
IsRawText(messageData) == "text" \in DOMAIN messageData

\* the first statements of the try block of handleBridgeMessage, JSON.parse and
\* the protocol check: "throws" (a SyntaxError of JSON.parse, or a TypeError when
\* protocol is read from null or startsWith is called on a value that is not a
\* string), "false" (return false) or "dispatch"
Decode(messageData) ==
    IF IsRawText(messageData)
    THEN IF messageData.text \in ScalarJSON THEN "false" ELSE "throws"
    ELSE CASE messageData.protocol[1] = NoProtocol -> "false"
           [] messageData.protocol[1] = NonString -> "throws"
           [] messageData.protocol[1] = AppScheme -> "dispatch"
           [] OTHER -> "false"

\* mutant of TryCatch: handleBridgeMessage has no outer catch
TryCatchRethrows(outcome) == outcome

\* the outer try/catch of handleBridgeMessage: whatever is thrown becomes
\* return false
TryCatch(outcome) == IF outcome = "throws" THEN "false" ELSE outcome

\* mutant of ReturnValue: true only when a handler was found
ReturnValueWhenHandled(outcome, handlerFound) ==
    TryCatch(outcome) = "dispatch" /\ handlerFound

\* the value handleBridgeMessage returns: false from the protocol check and
\* from the outer catch, true after the dispatch whatever the dispatch did
ReturnValue(outcome, handlerFound) == TryCatch(outcome) = "dispatch"

\* handleBridgeMessage gets past the protocol check
IsBridgeMessage(messageData) == Decode(messageData) = "dispatch"

\* fields of the decoded message; a string with no object in it has none
TokenOf(messageData) == IF IsRawText(messageData) THEN "" ELSE messageData.token
RequestIdOf(messageData) == IF IsRawText(messageData) THEN NoId ELSE messageData.requestId

HostState ==
    [handlers |-> handlers, invs |-> invs, hostCalls |-> hostCalls,
     sendLog |-> sendLog, toWeb |-> toWeb]

SetHostState(h) ==
    /\ handlers' = h.handlers
    /\ invs' = h.invs
    /\ hostCalls' = h.hostCalls
    /\ sendLog' = h.sendLog
    /\ toWeb' = h.toWeb

\* the page may post one more message within the bounds
Posted == last.handled + Len(toHost)
CanPost == Posted < MaxPosted /\ Len(toHost) < MaxQueue

----------------------------------------------------------------------------
(* Client side, src/lib/bridge-client.ts.  c is the client state a call     *)
(* works on: [pending, calls, threw].                                      *)

\* mutant of HandleResponse: the entry is not deleted from pendingRequests
HandleResponseKeepsEntry(c, response) ==
    IF response.requestId \in DOMAIN c.pending
    THEN LET n  == c.pending[response.requestId]
             c1 == [c EXCEPT !.calls[n].timer = ClearTimeout(@)]
         IN  IF response.success
             THEN [c1 EXCEPT !.calls[n] = Settle(@, "resolved", response.data)]
             ELSE [c1 EXCEPT !.calls[n] =
                      Settle(@, "rejected",
                             IF response.error /= NoError THEN response.error
                             ELSE "Unknown error")]
    ELSE c

\* mutant of HandleResponse: no 'if (pending)' guard, so a reply without a
\* pending entry reads a property of undefined and throws
HandleResponseNoGuard(c, response) ==
    IF response.requestId \in DOMAIN c.pending
    THEN LET n  == c.pending[response.requestId]
             c1 == [c EXCEPT !.calls[n].timer = ClearTimeout(@),
                             !.pending = MapDelete(@, response.requestId)]
         IN  IF response.success
             THEN [c1 EXCEPT !.calls[n] = Settle(@, "resolved", response.data)]
             ELSE [c1 EXCEPT !.calls[n] =
                      Settle(@, "rejected",
                             IF response.error /= NoError THEN response.error
                             ELSE "Unknown error")]
    ELSE [c EXCEPT !.threw = TRUE]

\* mutant of HandleResponse: the reply settles the oldest pending request,
\* whatever requestId it carries
HandleResponseByArrival(c, response) ==
    IF DOMAIN c.pending /= {}
    THEN LET id == CHOOSE x \in DOMAIN c.pending :
                       \A y \in DOMAIN c.pending : c.pending[x] <= c.pending[y]
             n  == c.pending[id]
             c1 == [c EXCEPT !.calls[n].timer = ClearTimeout(@),
                             !.pending = MapDelete(@, id)]
         IN  IF response.success
             THEN [c1 EXCEPT !.calls[n] = Settle(@, "resolved", response.data)]
             ELSE [c1 EXCEPT !.calls[n] =
                      Settle(@, "rejected",
                             IF response.error /= NoError THEN response.error
                             ELSE "Unknown error")]
    ELSE c

\* AppBridge._handleResponse
HandleResponse(c, response) ==
    IF response.requestId \in DOMAIN c.pending
    THEN LET n  == c.pending[response.requestId]
             c1 == [c EXCEPT !.calls[n].timer = ClearTimeout(@),
                             !.pending = MapDelete(@, response.requestId)]
         IN  IF response.success
             THEN [c1 EXCEPT !.calls[n] = Settle(@, "resolved", response.data)]
             ELSE [c1 EXCEPT !.calls[n] =
                      Settle(@, "rejected",
                             IF response.error /= NoError THEN response.error
                             ELSE "Unknown error")]
    ELSE c

\* the functions in the arrays of _listeners: fn is the identity of the
\* function, cb the callback of the page it calls, wait the waitFor promise it
\* settles
OnListener(cb) == [fn |-> cb, kind |-> "on", cb |-> cb, wait |-> 0]
OnceWrapper(n, cb) == [fn |-> "wrapper" \o ToString(n), kind |-> "once", cb |-> cb, wait |-> 0]
WaitHandler(k) == [fn |-> "handler" \o ToString(k), kind |-> "wait", cb |-> "", wait |-> k]

\* AppBridge.on: push to the array of the action, made when it is not there
On(ls, action, listener) ==
    MapSet(ls, action, (IF action \in DOMAIN ls THEN ls[action] ELSE <<>>) \o <<listener>>)

\* mutant of Off: the array of the action is deleted whether a callback is
\* given or not
OffDeletesArray(ls, action, callback) ==
    IF action \notin DOMAIN ls THEN ls ELSE MapDelete(ls, action)

\* AppBridge.off(action, callback): nothing without an array for the action;
\* with a callback the array is replaced by one without that function (an
\* empty array stays in _listeners), without one (callback = "") the array is
\* deleted
Off(ls, action, callback) ==
    IF action \notin DOMAIN ls THEN ls
    ELSE IF callback /= ""
         THEN MapSet(ls, action, SelectSeq(ls[action], LAMBDA l : l.fn /= callback))
         ELSE MapDelete(ls, action)

\* the value a waitFor promise settles with
NoValue == [event |-> 0, payload |-> Undefined, error |-> ""]
WaitValue(message) == [event |-> message.event, payload |-> message.payload, error |-> ""]
WaitError(action) ==
    [event |-> 0, payload |-> Undefined, error |-> "Timeout waiting for: " \o action]

\* a call of the callback cb(message.payload, message)
Hear(c, listener, message) ==
    [c EXCEPT !.heard = Append(@, [fn |-> listener.fn, cb |-> listener.cb,
                                   event |-> message.event])]

\* mutant of Invoke: the wrapper of once does not call off
InvokeKeepsWrapper(c, listener, message) ==
    CASE listener.kind = "wait" ->
           LET c1 == Hear(c, listener, message)
               c2 == [c1 EXCEPT !.waits[listener.wait].timer = ClearTimeout(@),
                                !.listeners = Off(@, message.action, listener.fn)]
           IN  [c2 EXCEPT !.waits[listener.wait] = Settle(@, "resolved", WaitValue(message))]
      [] OTHER -> Hear(c, listener, message)

\* one function of a listener array is called with (message.payload, message):
\* a callback given to on, the wrapper of once, or the handler of waitFor
Invoke(c, listener, message) ==
    CASE listener.kind = "once" ->
           Hear([c EXCEPT !.listeners = Off(@, message.action, listener.fn)],
                listener, message)
      [] listener.kind = "wait" ->
           LET c1 == Hear(c, listener, message)
               c2 == [c1 EXCEPT !.waits[listener.wait].timer = ClearTimeout(@),
                                !.listeners = Off(@, message.action, listener.fn)]
           IN  [c2 EXCEPT !.waits[listener.wait] = Settle(@, "resolved", WaitValue(message))]
      [] OTHER -> Hear(c, listener, message)

\* forEach over the array that was in _listeners when the loop began
RECURSIVE ForEach(_, _, _, _)
ForEach(c, array, i, message) ==
    IF i > Len(array) THEN c
    ELSE ForEach(Invoke(c, array[i], message), array, i + 1, message)

\* the listeners of one key of _listeners are called
CallListeners(c, key, message) ==
    IF key \in DOMAIN c.listeners THEN ForEach(c, c.listeners[key], 1, message) ELSE c

\* AppBridge._handleMessage: a bridgeResponse goes to _handleResponse only, any
\* other message to the listeners of its action and then to those of '*'
HandleMessage(c, message) ==
    IF message.action = "bridgeResponse"
    THEN HandleResponse(c, message.payload)
    ELSE CallListeners(CallListeners(c, message.action, message), "*", message)

\* _handleMessage is called n times with one message
RECURSIVE HandleTimes(_, _, _)
HandleTimes(c, message, n) ==
    IF n = 0 THEN c ELSE HandleTimes(HandleMessage(c, message), message, n - 1)

ClientState ==
    [pending |-> pendingRequests, calls |-> calls, threw |-> clientThrew,
     listeners |-> listeners, heard |-> heard, waits |-> waits]

SetClientState(c) ==
    /\ pendingRequests' = c.pending
    /\ calls' = c.calls
    /\ clientThrew' = c.threw
    /\ listeners' = c.listeners
    /\ heard' = c.heard
    /\ waits' = c.waits

\* mutant of GetBridgeClientScript: every later call generates a token again
GetBridgeClientScriptFresh(n) ==
    [token |-> IF n = 1 THEN SECURITY_TOKEN ELSE SECURITY_TOKEN \o ToString(n)]

\* the text the n-th call of getBridgeClientScript returns: the template with
\* the module's SECURITY_TOKEN in it
GetBridgeClientScript(n) == [token |-> SECURITY_TOKEN]

\* getSecurityToken()
GetSecurityToken == SECURITY_TOKEN

\* what a run of the client script finds in its window (history): the numbers
\* of pending requests, of armed timers and of registered functions
NothingFound == [pending |-> 0, timers |-> 0, listeners |-> 0]

\* a window in which no client script has run; nativeListeners is the number of
\* 'nativeMessage' listeners of the window, runs the number of times a client
\* script has run in it (history)
NoBridge ==
    [token |-> "", script |-> 0, load |-> 0, wrappers |-> 0,
     nativeListeners |-> 0, runs |-> 0, found |-> NothingFound]

\* mutant of InstallClient: no 'if (window.AppBridge) return'
InstallClientNoGuard(bridge, k, script) ==
    [token |-> script.token, script |-> k, load |-> bridge.load + 1, wrappers |-> 0,
     nativeListeners |-> bridge.nativeListeners + 1, runs |-> bridge.runs + 1,
     found |-> bridge.found]

\* the client script k runs in a window: 'if (window.AppBridge) return', else
\* the AppBridge object is made with the token of the script and a
\* 'nativeMessage' listener is added to the window
InstallClient(bridge, k, script) ==
    IF bridge.script /= 0 THEN [bridge EXCEPT !.runs = @ + 1]
    ELSE [token |-> script.token, script |-> k, load |-> bridge.load + 1, wrappers |-> 0,
          nativeListeners |-> bridge.nativeListeners + 1, runs |-> bridge.runs + 1,
          found |-> bridge.found]

WebActions == {"ping"}
OtherWebActions == {"pong"}        \* a second action of the messages to the page

\* the replies a page can send for a callWeb request
ReplyPayloads ==
    { HostPayload(TRUE, d, NoError) : d \in Data }
    \cup { HostPayload(FALSE, "", e) : e \in ErrorMessages \cup {NoError} }

----------------------------------------------------------------------------
(* The status bar handlers of registerBuiltInHandlers.  The bodies run     *)
(* after 'await import(react-native)'; respond is the closure of the       *)
(* invocation, here its argument is kept in responded.  The StatusBar API  *)
(* is taken not to throw, and Platform.OS to be 'android'.                 *)

Null == [null |-> TRUE]

\* an optional field of a payload: <<>> when it is undefined, else <<value>>
None == <<>>
Some(value) == <<value>>

StatusBarStyles == {"default", "light-content", "dark-content"}
StatusBarColors == {"#fff"}

\* the payloads of setStatusBar: {hidden?, style?, color?}; an absent style or
\* color is ""
StatusBarPayloads ==
    [hidden : {None, Some(TRUE), Some(FALSE)},
     style : StatusBarStyles \cup {""},
     color : StatusBarColors \cup {""}]

\* the status bar of a started app, which is what setStatusBar saves at its
\* first call: { hidden: false, style: 'default' }
DefaultStatusBar == [hidden |-> FALSE, style |-> "default", color |-> ""]

\* respond(data) of a built-in handler, with the status bar it left
Responded(st, action, data) ==
    [st EXCEPT !.responded = Append(@, [action |-> action, data |-> data,
                                        statusBar |-> st.statusBar])]

\* the handler of setStatusBar
SetStatusBarHandler(st, payload) ==
    LET st1 == IF st.saved = Null THEN [st EXCEPT !.saved = DefaultStatusBar] ELSE st
        st2 == IF payload.hidden /= None
               THEN [st1 EXCEPT !.statusBar.hidden = payload.hidden[1],
                                !.saved.hidden = payload.hidden[1]]
               ELSE st1
        st3 == IF payload.style /= ""
               THEN [st2 EXCEPT !.statusBar.style = payload.style,
                                !.saved.style = payload.style]
               ELSE st2
        st4 == IF payload.color /= ""
               THEN [st3 EXCEPT !.statusBar.color = payload.color,
                                !.saved.color = payload.color]
               ELSE st3
    IN  Responded(st4, "setStatusBar",
                  [success |-> TRUE, hidden |-> payload.hidden, style |-> payload.style,
                   color |-> payload.color])

\* the handler of restoreStatusBar
RestoreStatusBarHandler(st) ==
    IF st.saved /= Null
    THEN Responded([st EXCEPT !.statusBar =
                        [hidden |-> st.saved.hidden, style |-> st.saved.style,
                         color |-> IF st.saved.color /= "" THEN st.saved.color
                                   ELSE st.statusBar.color]],
                   "restoreStatusBar", [success |-> TRUE, restored |-> st.saved])
    ELSE Responded([st EXCEPT !.statusBar.hidden = FALSE, !.statusBar.style = "default"],
                   "restoreStatusBar",
                   [success |-> TRUE, restored |-> [hidden |-> FALSE, style |-> "default"]])

\* the handler of getStatusBar
GetStatusBarHandler(st) ==
    Responded(st, "getStatusBar", [success |-> TRUE, saved |-> st.saved])

StatusBarState ==
    [statusBar |-> statusBar, saved |-> savedStatusBarState, responded |-> responded]

SetStatusBarState(st) ==
    /\ statusBar' = st.statusBar
    /\ savedStatusBarState' = st.saved
    /\ responded' = st.responded

----------------------------------------------------------------------------
(* The microphone handlers, src/lib/bridges/microphone/index.ts, and the   *)
(* Microphone module they drive.  The module is native: of it, only the    *)
(* declarations of src/modules/microphone/index.ts are known.  It records  *)
(* or not (MicrophoneStatusResult.isStreaming), startRecording and         *)
(* stopRecording answer { success, error? }, and while it records it emits *)
(* onAudioChunk events to the listeners added and not removed.             *)

NoSubscription == 0
AudioChunkEvent == "audioChunk"

\* Microphone.startRecording(): on success the module records
MicrophoneStartRecording(streaming, success) == IF success THEN TRUE ELSE streaming

\* Microphone.stopRecording(): on success the module records no more
MicrophoneStopRecording(streaming, success) == IF success THEN FALSE ELSE streaming

\* the module emits onAudioChunk while it records
MicrophoneEmits == isStreaming

\* the listener of startRecording runs n times:
\* (event) => { sendToWeb('onAudioChunk', event) }
RECURSIVE ForwardAudioChunk(_, _)
ForwardAudioChunk(h, n) ==
    IF n = 0 THEN h
    ELSE ForwardAudioChunk(
             SendToWeb(h, "onAudioChunk", WebPayload(NoId, FALSE, AudioChunkEvent, NoError, ""), 0),
             n - 1)

----------------------------------------------------------------------------
(* The camera handlers, src/lib/bridges/camera/index.ts.  A timer of        *)
(* setInterval runs until clearInterval is called with its id.             *)

NoInterval == 0
EventKeys == {"onCameraFrame"}
CameraFrame == "cameraFrame"

\* cameraState = { isActive: true, facing, eventKey }: frameInterval is absent
ActiveCamera(eventKey) == [isActive |-> TRUE, eventKey |-> eventKey, frameInterval |-> NoInterval]

----------------------------------------------------------------------------
(* Initial state: the module-level state of bridge.ts and of               *)
(* webview-container.tsx (BRIDGE_CLIENT_SCRIPT), and a page in which that  *)
(* script has run                                                          *)

Init ==
    /\ handlers = EmptyMap
    /\ webViewInstance = NoWebView
    /\ invs = <<>>
    /\ hostCalls = <<>>
    /\ toHost = <<>>
    /\ toWeb = <<>>
    /\ sendLog = <<>>
    /\ last = [token |-> "", requestId |-> NoId, ret |-> FALSE, threw |-> FALSE,
               invoked |-> FALSE, sent |-> 0, handled |-> 0]
    /\ pendingRequests = EmptyMap
    /\ calls = <<>>
    /\ clientThrew = FALSE
    /\ webSeen = EmptyMap
    /\ converting = <<>>
    /\ scripts = <<GetBridgeClientScript(1)>>
    /\ appBridge = InstallClient(NoBridge, 1, GetBridgeClientScript(1))
    /\ listeners = EmptyMap
    /\ heard = <<>>
    /\ waits = <<>>
    /\ removed = {}
    /\ statusBar = DefaultStatusBar
    /\ savedStatusBarState = Null
    /\ responded = <<>>
    /\ mounted = FALSE
    /\ webViewError = FALSE
    /\ webViewKey = 1
    /\ emptyBodyRetryCount = 0
    /\ ref = NoWebView
    /\ webViews = 0
    /\ audioChunkSubscription = NoSubscription
    /\ audioListeners = {}
    /\ isStreaming = FALSE
    /\ subscriptions = 0
    /\ cameraState = [isActive |-> FALSE, eventKey |-> "", frameInterval |-> NoInterval]
    /\ cameraRef = FALSE
    /\ intervals = EmptyMap
    /\ intervalIds = 0

----------------------------------------------------------------------------
(* Host actions *)

\* setBridgeWebView(webView)
SetBridgeWebView(w) ==
    /\ webViewInstance /= w
    /\ webViewInstance' = w
    /\ UNCHANGED builtInVars
    /\ UNCHANGED <<pageVars, handlers, invs, hostCalls, toHost, toWeb, sendLog, last,
                   pendingRequests, calls, clientThrew, webSeen, converting>>

\* registerHandler(action, handler, options)
RegisterHandler(action, timeout, once) ==
    /\ handlers' = MapSet(handlers, action, UserRegistration(timeout, once))
    /\ UNCHANGED builtInVars
    /\ UNCHANGED <<pageVars, webViewInstance, invs, hostCalls, toHost, toWeb, sendLog, last,
                   pendingRequests, calls, clientThrew, webSeen, converting>>

\* unregisterHandler(action)
UnregisterHandler(action) ==
    /\ action \in DOMAIN handlers
    /\ handlers' = MapDelete(handlers, action)
    /\ UNCHANGED builtInVars
    /\ UNCHANGED <<pageVars, webViewInstance, invs, hostCalls, toHost, toWeb, sendLog, last,
                   pendingRequests, calls, clientThrew, webSeen, converting>>

\* clearHandlers()
ClearHandlers ==
    /\ handlers /= EmptyMap
    /\ handlers' = EmptyMap
    /\ UNCHANGED builtInVars
    /\ UNCHANGED <<pageVars, webViewInstance, invs, hostCalls, toHost, toWeb, sendLog, last,
                   pendingRequests, calls, clientThrew, webSeen, converting>>

\* handleBridgeMessage(messageData) for the next posted message; script is what
\* the handler body does if a handler of the application is invoked
HandleBridgeMessage(script) ==
    /\ toHost /= <<>>
    /\ LET msg == Head(toHost)
           h   == IF IsBridgeMessage(msg) THEN Dispatch(HostState, msg, script)
                  ELSE HostState
       IN  /\ SetHostState(h)
           /\ last' = [token |-> TokenOf(msg),
                       requestId |-> RequestIdOf(msg),
                       ret |-> ReturnValue(Decode(msg),
                                           IsBridgeMessage(msg)
                                           /\ msg.protocol[2] \in DOMAIN handlers),
                       threw |-> TryCatch(Decode(msg)) = "throws",
                       invoked |-> Len(h.invs) > Len(invs),
                       sent |-> Len(h.sendLog) - Len(sendLog),
                       handled |-> last.handled + 1]
    /\ toHost' = Tail(toHost)
    /\ UNCHANGED builtInVars
    /\ UNCHANGED <<pageVars, webViewInstance, pendingRequests, calls, clientThrew, webSeen, converting>>

\* a handler invocation that has returned calls respond later (from a callback
\* or after an await)
HandlerRespond(i, data) ==
    /\ i \in DOMAIN invs
    /\ SetHostState(WrappedRespond(HostState, i, data))
    /\ UNCHANGED builtInVars
    /\ UNCHANGED <<pageVars, webViewInstance, toHost, last, pendingRequests, calls, clientThrew, webSeen, converting>>

\* the timer set for options.timeout fires
HandlerTimeout(i) ==
    /\ i \in DOMAIN invs
    /\ invs[i].timer = "armed"
    /\ SetHostState(TimerCallback(HostState, i))
    /\ UNCHANGED builtInVars
    /\ UNCHANGED <<pageVars, webViewInstance, toHost, last, pendingRequests, calls, clientThrew, webSeen, converting>>

\* the promise an async handler returned rejects: nothing observes it
HandlerReject(i, e) ==
    /\ i \in DOMAIN invs
    /\ invs[i].outcome = "async"
    /\ invs' = [invs EXCEPT ![i].outcome = "rejected", ![i].error = e]
    /\ UNCHANGED builtInVars
    /\ UNCHANGED <<pageVars, handlers, webViewInstance, hostCalls, toHost, toWeb, sendLog, last,
                   pendingRequests, calls, clientThrew, webSeen, converting>>

\* the sendToWeb calls the application has made itself
EventsSent ==
    { k \in DOMAIN sendLog :
        /\ sendLog[k].action \in WebActions \cup OtherWebActions
        /\ sendLog[k].payload.responseAction = "" }

\* sendToWeb(action, payload) called by the application
SendEvent(action, data) ==
    /\ Cardinality(EventsSent) < MaxEvents
    /\ SetHostState(SendToWeb(HostState, action, WebPayload(NoId, FALSE, data, NoError, ""), 0))
    /\ UNCHANGED builtInVars
    /\ UNCHANGED <<pageVars, webViewInstance, toHost, last, pendingRequests, calls, clientThrew,
                   webSeen, converting>>

\* callWeb(action, payload, timeout)
CallWeb(action) ==
    /\ Len(hostCalls) < MaxHostCalls
    /\ LET n  == Len(hostCalls) + 1
           id == HostRequestId(n)
           h1 == [HostState EXCEPT
                     !.hostCalls = Append(@, [id |-> id, action |-> action, state |-> "pending",
                                              value |-> "", settles |-> 0, timer |-> "armed"]),
                     !.handlers = MapSet(@, ResponseHandlerName(id), ResponseRegistration(n))]
       IN  SetHostState(SendToWeb(h1, action,
                                  WebPayload(id, FALSE, "", NoError, ResponseHandlerName(id)), 0))
    /\ UNCHANGED builtInVars
    /\ UNCHANGED <<pageVars, webViewInstance, toHost, last, pendingRequests, calls, clientThrew, webSeen, converting>>

\* the timeout timer of callWeb fires
CallWebTimeout(n) ==
    /\ n \in DOMAIN hostCalls
    /\ hostCalls[n].timer = "armed"
    /\ hostCalls' = [hostCalls EXCEPT
                        ![n] = Settle([@ EXCEPT !.timer = "fired"], "rejected",
                                      "Request timeout: " \o @.action)]
    /\ UNCHANGED builtInVars
    /\ UNCHANGED <<pageVars, handlers, webViewInstance, invs, toHost, toWeb, sendLog, last,
                   pendingRequests, calls, clientThrew, webSeen, converting>>

----------------------------------------------------------------------------
(* Page actions *)

\* payload arguments without a Blob or File
ClientPayloads == {Undefined} \cup JSONValues \cup NotJSON

\* a payload with a Blob under an own key
BlobObject == [file |-> Blob, form |-> Text]

\* the message send and call post for a payload, once the promise of
\* processPayload has resolved, as the host parses it
ClientMessage(action, payload, requestId) ==
    [Message(<<AppScheme, action>>, Parse(Stringify(ProcessPayload(OrEmpty(payload)))),
             requestId, appBridge.token)
        EXCEPT !.arg = payload]

\* the calls among the operations that wait for the FileReader
ConvertingCalls == { k \in DOMAIN converting : converting[k].kind = "call" }

\* AppBridge.call(action, payload, timeout) with a payload that holds no Blob,
\* while fewer than limit calls have been made
ClientCallUpTo(limit, action) ==
    /\ Len(calls) + Cardinality(ConvertingCalls) < limit
    /\ CanPost
    /\ LET n  == Len(calls) + 1
           id == RequestId(n)
       IN  /\ calls' = Append(calls, [id |-> id, action |-> action, state |-> "pending",
                                      value |-> "", settles |-> 0, timer |-> "armed"])
           /\ pendingRequests' = MapSet(pendingRequests, id, n)
           /\ toHost' = Append(toHost, ClientMessage(action, EmptyPayload, id))
    /\ UNCHANGED builtInVars
    /\ UNCHANGED <<pageVars, hostVars, toWeb, clientThrew, webSeen, converting>>

ClientCall(action) == ClientCallUpTo(MaxCalls, action)

\* AppBridge.send or AppBridge.call with a payload that holds a Blob or File
\* under an own key: processPayload starts a FileReader and the rest of the
\* operation runs when the reader has finished
ClientIssuePayload(kind, action, payload) ==
    /\ BlobKeys(payload) /= {}
    /\ Len(converting) < MaxConverting
    /\ Posted + Len(converting) < MaxPosted
    /\ kind = "call" => Len(calls) + Cardinality(ConvertingCalls) < MaxCalls
    /\ converting' = Append(converting, [kind |-> kind, action |-> action,
                                         payload |-> payload])
    /\ UNCHANGED builtInVars
    /\ UNCHANGED <<pageVars, hostVars, toHost, toWeb, clientVars, webSeen>>

ClientIssueBlob(kind, action) == ClientIssuePayload(kind, action, BlobObject)

\* reader.onloadend of the k-th waiting operation: its promise resolves and the
\* then callback of send or call builds and posts the message
ConversionDone(k) ==
    /\ k \in DOMAIN converting
    /\ CanPost
    /\ converting' = SubSeq(converting, 1, k - 1) \o SubSeq(converting, k + 1, Len(converting))
    /\ IF converting[k].kind = "call"
       THEN LET n  == Len(calls) + 1
                id == RequestId(n)
            IN  /\ calls' = Append(calls, [id |-> id, action |-> converting[k].action,
                                           state |-> "pending", value |-> "", settles |-> 0,
                                           timer |-> "armed"])
                /\ pendingRequests' = MapSet(pendingRequests, id, n)
                /\ toHost' = Append(toHost, ClientMessage(converting[k].action,
                                                          converting[k].payload, id))
       ELSE /\ toHost' = Append(toHost, ClientMessage(converting[k].action,
                                                      converting[k].payload, NoId))
            /\ UNCHANGED builtInVars
            /\ UNCHANGED <<pageVars, calls, pendingRequests>>
    /\ UNCHANGED builtInVars
    /\ UNCHANGED <<pageVars, hostVars, toWeb, clientThrew, webSeen>>

\* AppBridge.send(action, payload) with a payload that holds no Blob
ClientSendPayload(action, payload) ==
    /\ BlobKeys(OrEmpty(payload)) = {}
    /\ CanPost
    /\ toHost' = Append(toHost, ClientMessage(action, payload, NoId))
    /\ UNCHANGED builtInVars
    /\ UNCHANGED <<pageVars, hostVars, toWeb, clientVars, webSeen, converting>>

\* AppBridge.send(action, {})
ClientSend(action) == ClientSendPayload(action, EmptyPayload)

\* mutant of ClientTimeout: the timer callback rejects but leaves the entry in
\* pendingRequests
ClientTimeoutKeepsEntry(n) ==
    /\ n \in DOMAIN calls
    /\ calls[n].timer = "armed"
    /\ calls' = [calls EXCEPT
                    ![n] = Settle([@ EXCEPT !.timer = "fired"], "rejected",
                                  "Request timeout: " \o @.action)]
    /\ UNCHANGED builtInVars
    /\ UNCHANGED <<pageVars, hostVars, toHost, toWeb, pendingRequests, clientThrew, webSeen, converting>>

\* the timeout timer of AppBridge.call fires
ClientTimeout(n) ==
    /\ n \in DOMAIN calls
    /\ calls[n].timer = "armed"
    /\ pendingRequests' = MapDelete(pendingRequests, calls[n].id)
    /\ calls' = [calls EXCEPT
                    ![n] = Settle([@ EXCEPT !.timer = "fired"], "rejected",
                                  "Request timeout: " \o @.action)]
    /\ UNCHANGED builtInVars
    /\ UNCHANGED <<pageVars, hostVars, toHost, toWeb, clientThrew, webSeen, converting>>

\* the number of injected scripts that have run in the page
Delivered == Cardinality({ k \in DOMAIN sendLog : sendLog[k].injected }) - Len(toWeb)

\* the callbacks of the page's code
Callbacks == {"cb1", "cb2"}

\* all functions in the arrays of _listeners
Listening == UNION { { listeners[a][k] : k \in DOMAIN listeners[a] } : a \in DOMAIN listeners }

\* the number of functions in the arrays of _listeners
RECURSIVE Registered(_)
Registered(ls) ==
    IF DOMAIN ls = {} THEN 0
    ELSE LET a == CHOOSE x \in DOMAIN ls : TRUE
         IN  Len(ls[a]) + Registered(MapDelete(ls, a))

\* AppBridge.on(action, callback)
ClientOn(action, cb) ==
    /\ Registered(listeners) < MaxListeners
    /\ listeners' = On(listeners, action, OnListener(cb))
    /\ removed' = removed \ {<<action, cb>>}
    /\ UNCHANGED builtInVars
    /\ UNCHANGED <<hostVars, toHost, toWeb, clientVars, webSeen, converting,
                   scripts, appBridge, heard, waits>>

\* AppBridge.once(action, callback)
ClientOnce(action, cb) ==
    /\ appBridge.wrappers < MaxWrappers
    /\ Registered(listeners) < MaxListeners
    /\ appBridge' = [appBridge EXCEPT !.wrappers = @ + 1]
    /\ listeners' = On(listeners, action, OnceWrapper(appBridge.wrappers + 1, cb))
    /\ removed' = removed \ {<<action, cb>>}
    /\ UNCHANGED builtInVars
    /\ UNCHANGED <<hostVars, toHost, toWeb, clientVars, webSeen, converting,
                   scripts, heard, waits>>

\* AppBridge.off(action, callback) called by the page; callback = "" is the
\* call without a callback
ClientOff(action, callback) ==
    /\ listeners' = Off(listeners, action, callback)
    /\ removed' = removed \cup { <<action, cb>> : cb \in IF callback = "" THEN Callbacks
                                                           ELSE {callback} }
    /\ UNCHANGED builtInVars
    /\ UNCHANGED <<hostVars, toHost, toWeb, clientVars, webSeen, converting,
                   scripts, appBridge, heard, waits>>

\* AppBridge.waitFor(action, timeout); since is the number of messages the page
\* had received when the call was made (history)
ClientWaitFor(action) ==
    /\ Len(waits) < MaxWaits
    /\ Registered(listeners) < MaxListeners
    /\ waits' = Append(waits, [action |-> action, since |-> Delivered, state |-> "pending",
                               value |-> NoValue, settles |-> 0, timer |-> "armed"])
    /\ listeners' = On(listeners, action, WaitHandler(Len(waits) + 1))
    /\ UNCHANGED builtInVars
    /\ UNCHANGED <<hostVars, toHost, toWeb, clientVars, webSeen, converting,
                   scripts, appBridge, heard, removed>>

\* mutant of WaitTimeout: the timer callback rejects without calling off
WaitTimeoutKeepsListener(k) ==
    /\ k \in DOMAIN waits
    /\ waits[k].timer = "armed"
    /\ waits' = [waits EXCEPT ![k] = Settle([@ EXCEPT !.timer = "fired"], "rejected",
                                            WaitError(@.action))]
    /\ UNCHANGED builtInVars
    /\ UNCHANGED <<hostVars, toHost, toWeb, clientVars, webSeen, converting,
                   scripts, appBridge, heard, listeners, removed>>

\* the timeout timer of AppBridge.waitFor fires
WaitTimeout(k) ==
    /\ k \in DOMAIN waits
    /\ waits[k].timer = "armed"
    /\ listeners' = Off(listeners, waits[k].action, WaitHandler(k).fn)
    /\ waits' = [waits EXCEPT ![k] = Settle([@ EXCEPT !.timer = "fired"], "rejected",
                                            WaitError(@.action))]
    /\ UNCHANGED builtInVars
    /\ UNCHANGED <<hostVars, toHost, toWeb, clientVars, webSeen, converting,
                   scripts, appBridge, heard, removed>>

\* an injected script runs in the page: it dispatches the 'nativeMessage' event,
\* whose listeners call _handleMessage, and then calls window.onNativeMessage,
\* which calls _handleMessage again; the page's own code sees a callWeb request
DeliverToWeb ==
    /\ toWeb /= <<>>
    /\ LET message == [action |-> Head(toWeb).action, payload |-> Head(toWeb).payload,
                       event |-> Delivered + 1]
       IN  /\ SetClientState(HandleTimes(ClientState, message, appBridge.nativeListeners + 1))
           /\ webSeen' = IF message.payload.responseAction /= ""
                            /\ message.payload.requestId \notin DOMAIN webSeen
                         THEN MapSet(webSeen, message.payload.requestId,
                                     [responseAction |-> message.payload.responseAction,
                                      replies |-> 0])
                         ELSE webSeen
    /\ toWeb' = Tail(toWeb)
    /\ UNCHANGED builtInVars
    /\ UNCHANGED <<scripts, appBridge, removed, hostVars, toHost, converting>>

\* the page answers a callWeb request: AppBridge.send(responseAction, reply)
WebReply(id, reply) ==
    /\ id \in DOMAIN webSeen
    /\ webSeen[id].replies < MaxReplies
    /\ CanPost
    /\ webSeen' = [webSeen EXCEPT ![id].replies = @ + 1]
    /\ toHost' = Append(toHost, Message(<<AppScheme, webSeen[id].responseAction>>, reply,
                                        NoId, appBridge.token))
    /\ UNCHANGED builtInVars
    /\ UNCHANGED <<pageVars, hostVars, toWeb, clientVars, converting>>

\* the page answers a callWeb request by posting the message itself, with no
\* payload field: postMessage(JSON.stringify({protocol: 'app://' + responseAction}))
PostReply(id) ==
    /\ id \in DOMAIN webSeen
    /\ webSeen[id].replies < MaxReplies
    /\ CanPost
    /\ webSeen' = [webSeen EXCEPT ![id].replies = @ + 1]
    /\ toHost' = Append(toHost, Message(<<AppScheme, webSeen[id].responseAction>>, Undefined,
                                        NoId, appBridge.token))
    /\ UNCHANGED builtInVars
    /\ UNCHANGED <<pageVars, hostVars, toWeb, clientVars, converting>>

\* payloads of the messages a page builds and posts itself: no payload field, or
\* an object
OwnPayloads == {Undefined, EmptyPayload}

\* a script of the page builds a message itself, with the token of
\* AppBridge.getToken(), and posts it:
\* postMessage(JSON.stringify({protocol: 'app://' + action, payload, requestId, __token}))
PostOwn(action, payload, requestId) ==
    /\ CanPost
    /\ toHost' = Append(toHost, Message(<<AppScheme, action>>, payload, requestId,
                                        appBridge.token))
    /\ UNCHANGED builtInVars
    /\ UNCHANGED <<pageVars, hostVars, toWeb, clientVars, webSeen, converting>>

\* getBridgeClientScript() is called again
MakeScript ==
    /\ Len(scripts) < MaxScripts
    /\ scripts' = Append(scripts, GetBridgeClientScript(Len(scripts) + 1))
    /\ UNCHANGED builtInVars
    /\ UNCHANGED <<hostVars, toHost, toWeb, clientVars, webSeen, converting,
                   appBridge, listeners, heard, waits, removed>>

\* the client script k runs in the window of the loaded page, where a client
\* script has run before (the WebView injects it for a frame of the document,
\* or the application injects it again); a client made now has a pendingRequests
\* Map and a _listeners object of its own
RunScript(k) ==
    /\ k \in DOMAIN scripts
    /\ appBridge.runs < MaxRuns
    /\ LET bridge == InstallClient(appBridge, k, scripts[k])
       IN  /\ appBridge' =
                  [bridge EXCEPT !.found =
                      [pending |-> Cardinality(DOMAIN pendingRequests),
                       timers |-> Cardinality({ n \in DOMAIN calls : calls[n].timer = "armed" }),
                       listeners |-> Registered(listeners)]]
           /\ IF bridge.nativeListeners /= appBridge.nativeListeners
              THEN /\ pendingRequests' = EmptyMap
                   /\ listeners' = EmptyMap
              ELSE UNCHANGED <<pendingRequests, listeners>>
    /\ UNCHANGED builtInVars
    /\ UNCHANGED <<hostVars, toHost, toWeb, calls, clientThrew, webSeen, converting,
                   scripts, heard, waits, removed>>

\* the WebView loads a document and runs script k before its content
\* (injectedJavaScriptBeforeContentLoaded): the window is new, so the pending
\* requests, listeners, timers and FileReaders of the page before are gone
LoadPage(k) ==
    /\ k \in DOMAIN scripts
    /\ appBridge.load < MaxLoads
    /\ appBridge' = InstallClient([NoBridge EXCEPT !.load = appBridge.load], k, scripts[k])
    /\ pendingRequests' = EmptyMap
    /\ calls' = [n \in DOMAIN calls |-> [calls[n] EXCEPT !.timer = ClearTimeout(@)]]
    /\ waits' = [n \in DOMAIN waits |-> [waits[n] EXCEPT !.timer = ClearTimeout(@)]]
    /\ listeners' = EmptyMap
    /\ removed' = {}
    /\ webSeen' = EmptyMap
    /\ converting' = <<>>
    /\ UNCHANGED builtInVars
    /\ UNCHANGED <<hostVars, toHost, toWeb, clientThrew, scripts, heard>>

\* a script that is not the client posts a message of the right shape without
\* the session token
ForeignPost(action, requestId, token) ==
    /\ CanPost
    /\ toHost' = Append(toHost, Message(<<AppScheme, action>>, EmptyPayload, requestId, token))
    /\ UNCHANGED builtInVars
    /\ UNCHANGED <<pageVars, hostVars, toWeb, clientVars, webSeen, converting>>

ForeignRequestIds == {NoId, "x1"}

\* strings the page posts that are not bridge messages: text with no message
\* object in it, and objects whose protocol is missing, is not a string or does
\* not start with app://
NotBridgeMessages ==
    RawTexts \cup
    { Message(<<p, a>>, EmptyPayload, r, appBridge.token) :
        p \in {NoProtocol, NonString} \cup OtherSchemes, a \in Actions, r \in ForeignRequestIds }

\* window.ReactNativeWebView.postMessage(messageData) by any script of the page
PostOther(messageData) ==
    /\ CanPost
    /\ toHost' = Append(toHost, messageData)
    /\ UNCHANGED builtInVars
    /\ UNCHANGED <<pageVars, hostVars, toWeb, clientVars, webSeen, converting>>

----------------------------------------------------------------------------
(* Requests the built-in handlers answer *)

\* a setStatusBar request reaches its handler
SetStatusBar(payload) ==
    /\ Len(responded) < MaxBuiltIn
    /\ SetStatusBarState(SetStatusBarHandler(StatusBarState, payload))
    /\ UNCHANGED <<containerVars, deviceVars, pageVars, hostVars, clientVars, toHost, toWeb, webSeen,
                   converting>>

\* a restoreStatusBar request reaches its handler
RestoreStatusBar ==
    /\ Len(responded) < MaxBuiltIn
    /\ SetStatusBarState(RestoreStatusBarHandler(StatusBarState))
    /\ UNCHANGED <<containerVars, deviceVars, pageVars, hostVars, clientVars, toHost, toWeb, webSeen,
                   converting>>

\* a getStatusBar request reaches its handler
GetStatusBar ==
    /\ Len(responded) < MaxBuiltIn
    /\ SetStatusBarState(GetStatusBarHandler(StatusBarState))
    /\ UNCHANGED <<containerVars, deviceVars, pageVars, hostVars, clientVars, toHost, toWeb, webSeen,
                   converting>>

----------------------------------------------------------------------------
(* WebViewContainer.  A render shows the error screen when error is set,   *)
(* else the WebView with key webViewKey; React makes a new WebView object  *)
(* when the WebView comes back or its key changes, and sets ref.current to *)
(* the mounted object, or to null when none is mounted.  The effect that   *)
(* calls setBridgeWebView has no dependencies: it runs after the first     *)
(* render, its cleanup at unmount.                                         *)

MAX_EMPTY_BODY_RETRIES == 2

\* the render mounts a new WebView object
NewWebView ==
    /\ webViews < MaxWebViews
    /\ webViews' = webViews + 1
    /\ ref' = webViews + 1

\* WebViewContainer mounts: first render, then the effect
\* setBridgeWebView(ref.current)
ContainerMount ==
    /\ ~mounted
    /\ mounted' = TRUE
    /\ webViewError' = FALSE
    /\ webViewKey' = 1
    /\ emptyBodyRetryCount' = 0
    /\ NewWebView
    /\ webViewInstance' = ref'
    /\ UNCHANGED <<statusBarVars, deviceVars, pageVars, handlers, invs, hostCalls, sendLog, last,
                   clientVars, toHost, toWeb, webSeen, converting>>

\* WebViewContainer unmounts: the cleanup of the effect, setBridgeWebView(null)
ContainerUnmount ==
    /\ mounted
    /\ mounted' = FALSE
    /\ ref' = NoWebView
    /\ webViewInstance' = NoWebView
    /\ UNCHANGED <<webViewError, webViewKey, emptyBodyRetryCount, webViews>>
    /\ UNCHANGED <<statusBarVars, deviceVars, pageVars, handlers, invs, hostCalls, sendLog, last,
                   clientVars, toHost, toWeb, webSeen, converting>>

\* handleError, handleHttpError for a status of 400 or more, or the loading
\* timeout: setError(...), and the next render shows the error screen
HandleError ==
    /\ mounted
    /\ ref /= NoWebView
    /\ webViewError' = TRUE
    /\ ref' = NoWebView
    /\ UNCHANGED <<mounted, webViewKey, emptyBodyRetryCount, webViews>>
    /\ UNCHANGED <<statusBarVars, deviceVars, pageVars, hostVars, clientVars, toHost, toWeb, webSeen,
                   converting>>

\* handleRetry, the button of the error screen: setError(null), and
\* ref.current?.reload() while ref.current is null; the next render mounts a
\* WebView
HandleRetry ==
    /\ mounted
    /\ webViewError
    /\ emptyBodyRetryCount' = 0
    /\ webViewError' = FALSE
    /\ NewWebView
    /\ UNCHANGED <<mounted, webViewKey>>
    /\ UNCHANGED <<statusBarVars, deviceVars, pageVars, hostVars, clientVars, toHost, toWeb, webSeen,
                   converting>>

\* handleMessage for a DEBUG_DOM_STATE report of the page (handleBridgeMessage
\* has returned false for it): an empty body is answered by a reload of the
\* same WebView twice, the third time by setWebViewKey(prev => prev + 1)
HandleDomState(bodyLength) ==
    /\ mounted
    /\ ref /= NoWebView
    /\ IF bodyLength = 0
       THEN IF emptyBodyRetryCount + 1 <= MAX_EMPTY_BODY_RETRIES
            THEN /\ emptyBodyRetryCount' = emptyBodyRetryCount + 1
                 /\ UNCHANGED <<webViewKey, ref, webViews>>
            ELSE /\ emptyBodyRetryCount' = 0
                 /\ webViewKey' = webViewKey + 1
                 /\ NewWebView
       ELSE /\ emptyBodyRetryCount' = 0
            /\ UNCHANGED <<webViewKey, ref, webViews>>
    /\ UNCHANGED <<mounted, webViewError>>
    /\ UNCHANGED <<statusBarVars, deviceVars, pageVars, hostVars, clientVars, toHost, toWeb, webSeen,
                   converting>>

----------------------------------------------------------------------------
(* Requests the microphone handlers answer, and the events of the module *)

\* the sendToWeb calls made for audio chunks
ChunksForwarded == { k \in DOMAIN sendLog : sendLog[k].action = "onAudioChunk" }

\* a startRecording request reaches its handler; success is the result of the
\* module.  The subscription that audioChunkSubscription held is not removed
StartRecording(success) ==
    /\ Len(responded) < MaxBuiltIn
    /\ isStreaming' = MicrophoneStartRecording(isStreaming, success)
    /\ IF success
       THEN /\ subscriptions' = subscriptions + 1
            /\ audioListeners' = audioListeners \cup {subscriptions + 1}
            /\ audioChunkSubscription' = subscriptions + 1
       ELSE UNCHANGED <<subscriptions, audioListeners, audioChunkSubscription>>
    /\ SetStatusBarState(Responded(StatusBarState, "startRecording", [success |-> success]))
    /\ UNCHANGED <<containerVars, cameraVars, pageVars, hostVars, clientVars, toHost, toWeb,
                   webSeen, converting>>

\* a stopRecording request reaches its handler; success is the result of the
\* module
StopRecording(success) ==
    /\ Len(responded) < MaxBuiltIn
    /\ IF audioChunkSubscription /= NoSubscription
       THEN /\ audioListeners' = audioListeners \ {audioChunkSubscription}
            /\ audioChunkSubscription' = NoSubscription
       ELSE UNCHANGED <<audioListeners, audioChunkSubscription>>
    /\ isStreaming' = MicrophoneStopRecording(isStreaming, success)
    /\ SetStatusBarState(Responded(StatusBarState, "stopRecording", [success |-> success]))
    /\ UNCHANGED subscriptions
    /\ UNCHANGED <<containerVars, cameraVars, pageVars, hostVars, clientVars, toHost, toWeb,
                   webSeen, converting>>

\* the module emits an onAudioChunk event: every listener it holds runs
AudioChunk ==
    /\ MicrophoneEmits
    /\ audioListeners /= {}
    /\ Cardinality(ChunksForwarded) < MaxChunks
    /\ SetHostState(ForwardAudioChunk(HostState, Cardinality(audioListeners)))
    /\ UNCHANGED <<statusBarVars, containerVars, deviceVars, pageVars, webViewInstance, toHost,
                   last, clientVars, webSeen, converting>>

----------------------------------------------------------------------------
(* Requests the camera handlers answer, and their timers *)

\* the sendToWeb calls made for camera frames
FramesSent == { k \in DOMAIN sendLog : sendLog[k].action \in EventKeys }

\* setCameraRef(ref), called by the camera component
SetCameraRef(r) ==
    /\ cameraRef /= r
    /\ cameraRef' = r
    /\ UNCHANGED <<cameraState, intervals, intervalIds>>
    /\ UNCHANGED <<statusBarVars, containerVars, microphoneVars, pageVars, hostVars, clientVars,
                   toHost, toWeb, webSeen, converting>>

\* a startCamera request reaches its handler; granted is the answer to the
\* permission requests.  The timer that cameraState.frameInterval held is
\* not cleared
StartCamera(eventKey, granted) ==
    /\ Len(responded) < MaxBuiltIn
    /\ IF ~granted
       THEN /\ SetStatusBarState(Responded(StatusBarState, "startCamera",
                     [success |-> FALSE, error |-> "Camera permission denied"]))
            /\ UNCHANGED <<cameraState, intervals, intervalIds>>
       ELSE IF ~cameraRef
       THEN /\ SetStatusBarState(Responded(StatusBarState, "startCamera",
                     [success |-> FALSE, error |-> "Camera component not initialized"]))
            /\ UNCHANGED <<cameraState, intervals, intervalIds>>
       ELSE /\ IF eventKey /= ""
               THEN /\ intervalIds' = intervalIds + 1
                    /\ intervals' = MapSet(intervals, intervalIds + 1, eventKey)
                    /\ cameraState' = [ActiveCamera(eventKey) EXCEPT
                                           !.frameInterval = intervalIds + 1]
               ELSE /\ cameraState' = ActiveCamera(eventKey)
                    /\ UNCHANGED <<intervals, intervalIds>>
            /\ SetStatusBarState(Responded(StatusBarState, "startCamera",
                     [success |-> TRUE, isActive |-> TRUE, eventKey |-> eventKey]))
    /\ UNCHANGED cameraRef
    /\ UNCHANGED <<containerVars, microphoneVars, pageVars, hostVars, clientVars, toHost, toWeb,
                   webSeen, converting>>

\* a stopCamera request reaches its handler
StopCamera ==
    /\ Len(responded) < MaxBuiltIn
    /\ intervals' = IF cameraState.frameInterval /= NoInterval
                       /\ cameraState.frameInterval \in DOMAIN intervals
                    THEN MapDelete(intervals, cameraState.frameInterval)
                    ELSE intervals
    /\ cameraState' = [isActive |-> FALSE, eventKey |-> "", frameInterval |-> NoInterval]
    /\ SetStatusBarState(Responded(StatusBarState, "stopCamera",
             [success |-> TRUE, isActive |-> FALSE]))
    /\ UNCHANGED <<cameraRef, intervalIds>>
    /\ UNCHANGED <<containerVars, microphoneVars, pageVars, hostVars, clientVars, toHost, toWeb,
                   webSeen, converting>>

\* the timer i fires: it clears itself when the camera is not active or
\* there is no CameraView, else it takes a picture and sends it when the
\* picture has base64 data
FrameTick(i, base64) ==
    /\ i \in DOMAIN intervals
    /\ IF ~cameraState.isActive \/ ~cameraRef
       THEN /\ intervals' = MapDelete(intervals, i)
            /\ UNCHANGED <<hostVars, toWeb>>
       ELSE /\ base64
            /\ Cardinality(FramesSent) < MaxFrames
            /\ SetHostState(SendToWeb(HostState, intervals[i],
                                      WebPayload(NoId, FALSE, CameraFrame, NoError, ""), 0))
            /\ UNCHANGED <<intervals, webViewInstance, last>>
    /\ UNCHANGED <<cameraState, cameraRef, intervalIds>>
    /\ UNCHANGED <<statusBarVars, containerVars, microphoneVars, pageVars, toHost, clientVars,
                   webSeen, converting>>

----------------------------------------------------------------------------
(* Every operation of the bridge *)

Next ==
    \/ \E w \in {NoWebView, SomeWebView} : SetBridgeWebView(w)
    \/ \E a \in Actions, t \in BOOLEAN, o \in BOOLEAN : RegisterHandler(a, t, o)
    \/ \E a \in Actions : UnregisterHandler(a)
    \/ ClearHandlers
    \/ \E s \in Scripts \cup ReentrantScripts : HandleBridgeMessage(s)
    \/ \E i \in 1..MaxPosted, d \in Data : HandlerRespond(i, d)
    \/ \E i \in 1..MaxPosted : HandlerTimeout(i)
    \/ \E i \in 1..MaxPosted, e \in ErrorMessages : HandlerReject(i, e)
    \/ \E a \in WebActions, d \in Data : SendEvent(a, d)
    \/ \E a \in WebActions : CallWeb(a)
    \/ \E n \in 1..MaxHostCalls : CallWebTimeout(n)
    \/ \E a \in Actions : ClientCall(a)
    \/ \E a \in Actions : ClientSend(a)
    \/ \E n \in 1..MaxCalls : ClientTimeout(n)
    \/ DeliverToWeb
    \/ \E n \in 1..MaxHostCalls, r \in ReplyPayloads : WebReply(HostRequestId(n), r)
    \/ \E n \in 1..MaxHostCalls : PostReply(HostRequestId(n))
    \/ \E a \in Actions, r \in ForeignRequestIds, t \in ForeignTokens : ForeignPost(a, r, t)
    \/ \E m \in NotBridgeMessages : PostOther(m)
    \/ \E a \in Actions, p \in OwnPayloads, r \in ForeignRequestIds : PostOwn(a, p, r)
    \/ \E a \in Actions \cup OtherActions, p \in ClientPayloads : ClientSendPayload(a, p)
    \/ \E k \in {"send", "call"}, a \in Actions : ClientIssueBlob(k, a)
    \/ \E k \in 1..MaxConverting : ConversionDone(k)
    \/ \E a \in Actions, p \in FormPayloads : ClientSendPayload(a, p)
    \/ \E k \in {"send", "call"}, a \in Actions, p \in FormPayloads : ClientIssuePayload(k, a, p)
    \/ MakeScript
    \/ \E k \in 1..MaxScripts : LoadPage(k)
    \/ \E a \in WebActions \cup {"*"}, cb \in Callbacks : ClientOn(a, cb)
    \/ \E a \in WebActions, cb \in Callbacks : ClientOnce(a, cb)
    \/ \E a \in WebActions : ClientWaitFor(a)
    \/ \E k \in 1..MaxWaits : WaitTimeout(k)
    \/ \E a \in WebActions \cup OtherWebActions, cb \in Callbacks \cup {""} : ClientOff(a, cb)
    \/ \E p \in StatusBarPayloads : SetStatusBar(p)
    \/ RestoreStatusBar
    \/ GetStatusBar
    \/ \E k \in 1..MaxScripts : RunScript(k)
    \/ ContainerMount
    \/ ContainerUnmount
    \/ HandleError
    \/ HandleRetry
    \/ \E n \in 0..1 : HandleDomState(n)
    \/ \E success \in BOOLEAN : StartRecording(success)
    \/ \E success \in BOOLEAN : StopRecording(success)
    \/ AudioChunk
    \/ \E r \in BOOLEAN : SetCameraRef(r)
    \/ \E k \in EventKeys \cup {""}, granted \in BOOLEAN : StartCamera(k, granted)
    \/ StopCamera
    \/ \E i \in 1..MaxBuiltIn, base64 \in BOOLEAN : FrameTick(i, base64)

----------------------------------------------------------------------------
(* Specifications.  Spec is the whole bridge.  The others are the bridge   *)
(* with one kind of traffic each, which is what TLC explores: SpecHost,    *)
(* messages of any origin handled by the host; SpecDispatch, messages of   *)
(* the client dispatched to handlers; SpecCall, AppBridge.call round       *)
(* trips; SpecCallWeb, callWeb round trips; SpecDecode, strings that are   *)
(* not bridge messages; SpecOnce, once handlers; SpecConcurrent and        *)
(* SpecInvocations, several requests in flight; SpecOrder, Blob payloads;  *)
(* SpecSend, sendToWeb with and without a WebView; SpecSettle, requests of *)
(* both directions with their timers; SpecRespond, respond calls;          *)
(* SpecPayload and SpecRoundTrip, the payload from the page to the         *)
(* handler; SpecRegistry, the handler registry; SpecToken, scripts and     *)
(* page loads; SpecBlob, payloads with a Blob at any depth; SpecListen,    *)
(* SpecWait, SpecWildcard, SpecOff and SpecOnceOff, the listeners of the   *)
(* page; SpecStatusBar, the status bar handlers; SpecContainer, the        *)
(* WebViewContainer component; SpecRerun, client scripts run again in one  *)
(* window; SpecReplace, handlers replaced while they run; SpecRecording,   *)
(* the microphone handlers; SpecCamera, the camera handlers.               *)

Spec == Init /\ [][Next]_vars

EnvHost ==
    \/ \E w \in {NoWebView, SomeWebView} : SetBridgeWebView(w)
    \/ \E a \in Actions, t \in BOOLEAN, o \in BOOLEAN : RegisterHandler(a, t, o)
    \/ \E a \in Actions : UnregisterHandler(a)
    \/ ClearHandlers

NextHost ==
    \/ EnvHost
    \/ \E s \in Scripts : HandleBridgeMessage(s)
    \/ \E i \in 1..MaxPosted, d \in Data : HandlerRespond(i, d)
    \/ \E i \in 1..MaxPosted : HandlerTimeout(i)
    \/ \E i \in 1..MaxPosted, e \in ErrorMessages : HandlerReject(i, e)
    \/ \E a \in Actions : ClientCall(a)
    \/ \E a \in Actions : ClientSend(a)
    \/ \E a \in Actions, r \in ForeignRequestIds, t \in ForeignTokens : ForeignPost(a, r, t)

SpecHost == Init /\ [][NextHost]_vars

\* requests and notifications of the client, dispatched to handlers of the
\* application while the WebView gets attached
NextDispatch ==
    \/ SetBridgeWebView(SomeWebView)
    \/ \E a \in Actions, t \in BOOLEAN, o \in BOOLEAN : RegisterHandler(a, t, o)
    \/ \E s \in Scripts : HandleBridgeMessage(s)
    \/ \E i \in 1..MaxPosted, d \in Data : HandlerRespond(i, d)
    \/ \E i \in 1..MaxPosted : HandlerTimeout(i)
    \/ \E a \in Actions : ClientCall(a)
    \/ \E a \in Actions : ClientSend(a)

SpecDispatch == Init /\ [][NextDispatch]_vars

NextCall ==
    \/ EnvHost
    \/ \E s \in Scripts : HandleBridgeMessage(s)
    \/ \E i \in 1..MaxPosted, d \in Data : HandlerRespond(i, d)
    \/ \E i \in 1..MaxPosted : HandlerTimeout(i)
    \/ \E a \in Actions : ClientCall(a)
    \/ \E n \in 1..MaxCalls : ClientTimeout(n)
    \/ DeliverToWeb

SpecCall == Init /\ [][NextCall]_vars

NextCallWeb ==
    \/ EnvHost
    \/ \E s \in Scripts : HandleBridgeMessage(s)
    \/ \E a \in WebActions : CallWeb(a)
    \/ \E n \in 1..MaxHostCalls : CallWebTimeout(n)
    \/ DeliverToWeb
    \/ \E n \in 1..MaxHostCalls, r \in ReplyPayloads : WebReply(HostRequestId(n), r)

SpecCallWeb == Init /\ [][NextCallWeb]_vars

\* strings of any kind posted to the host while handlers are registered
NextDecode ==
    \/ \E w \in {NoWebView, SomeWebView} : SetBridgeWebView(w)
    \/ \E a \in Actions, t \in BOOLEAN, o \in BOOLEAN : RegisterHandler(a, t, o)
    \/ \E s \in Scripts : HandleBridgeMessage(s)
    \/ \E a \in Actions : ClientCall(a)
    \/ \E m \in NotBridgeMessages : PostOther(m)

SpecDecode == Init /\ [][NextDecode]_vars

\* handlers with and without the once option, whose bodies may register a
\* handler for their own action; nothing else removes a handler
NextOnce ==
    \/ SetBridgeWebView(SomeWebView)
    \/ \E a \in Actions, o \in BOOLEAN : RegisterHandler(a, FALSE, o)
    \/ \E s \in Scripts \cup ReentrantScripts : HandleBridgeMessage(s)
    \/ \E a \in Actions : ClientCall(a)
    \/ \E a \in Actions : ClientSend(a)

SpecOnce == Init /\ [][NextOnce]_vars

\* several requests for one action in flight at once: the handler answers
\* them in any order, or not at all
NextConcurrent ==
    \/ SetBridgeWebView(SomeWebView)
    \/ \E a \in Actions : RegisterHandler(a, FALSE, FALSE)
    \/ \E s \in Scripts : HandleBridgeMessage(s)
    \/ \E i \in 1..MaxPosted, d \in Data : HandlerRespond(i, d)
    \/ \E a \in Actions : ClientCallUpTo(MaxInFlight, a)
    \/ \E n \in 1..MaxInFlight : ClientTimeout(n)
    \/ DeliverToWeb

SpecConcurrent == Init /\ [][NextConcurrent]_vars

\* several invocations of one handler, with and without a handler timeout,
\* running at the same time
NextInvocations ==
    \/ SetBridgeWebView(SomeWebView)
    \/ \E a \in Actions, t \in BOOLEAN : RegisterHandler(a, t, FALSE)
    \/ \E s \in Scripts : HandleBridgeMessage(s)
    \/ \E i \in 1..MaxPosted, d \in Data : HandlerRespond(i, d)
    \/ \E i \in 1..MaxPosted : HandlerTimeout(i)
    \/ \E a \in Actions : ClientCallUpTo(MaxInFlight, a)

SpecInvocations == Init /\ [][NextInvocations]_vars

\* the page sends and calls with and without Blob payloads
NextOrder ==
    \/ \E a \in Actions : RegisterHandler(a, FALSE, FALSE)
    \/ \E s \in Scripts : HandleBridgeMessage(s)
    \/ \E a \in Actions : ClientCall(a)
    \/ \E a \in Actions : ClientSend(a)
    \/ \E k \in {"send", "call"}, a \in Actions : ClientIssueBlob(k, a)
    \/ \E k \in 1..MaxConverting : ConversionDone(k)

SpecOrder == Init /\ [][NextOrder]_vars

\* the host sends to the page, by sendToWeb and by replies, while the WebView
\* comes and goes
NextSend ==
    \/ \E w \in {NoWebView, SomeWebView} : SetBridgeWebView(w)
    \/ \E a \in Actions : RegisterHandler(a, FALSE, FALSE)
    \/ \E s \in Scripts : HandleBridgeMessage(s)
    \/ \E a \in WebActions, d \in Data : SendEvent(a, d)
    \/ \E a \in Actions : ClientCall(a)
    \/ DeliverToWeb

SpecSend == Init /\ [][NextSend]_vars

\* requests of both directions with their timers; a timer that is armed fires
\* after its delay unless it is cleared first
NextSettle ==
    \/ \E w \in {NoWebView, SomeWebView} : SetBridgeWebView(w)
    \/ \E a \in Actions : RegisterHandler(a, FALSE, FALSE)
    \/ \E s \in Scripts : HandleBridgeMessage(s)
    \/ \E a \in Actions : ClientCall(a)
    \/ \E n \in 1..MaxCalls : ClientTimeout(n)
    \/ DeliverToWeb
    \/ \E a \in WebActions : CallWeb(a)
    \/ \E n \in 1..MaxHostCalls : CallWebTimeout(n)
    \/ \E n \in 1..MaxHostCalls, r \in ReplyPayloads : WebReply(HostRequestId(n), r)
    \/ \E n \in 1..MaxHostCalls : PostReply(HostRequestId(n))

TimersFire ==
    /\ \A n \in 1..MaxCalls : WF_vars(ClientTimeout(n))
    /\ \A n \in 1..MaxHostCalls : WF_vars(CallWebTimeout(n))

SpecSettle == Init /\ [][NextSettle]_vars /\ TimersFire

\* requests and notifications whose handlers respond, at once or later, with
\* different data
NextRespond ==
    \/ SetBridgeWebView(SomeWebView)
    \/ \E a \in Actions : RegisterHandler(a, FALSE, FALSE)
    \/ \E s \in Scripts : HandleBridgeMessage(s)
    \/ \E i \in 1..MaxPosted, d \in LateData : HandlerRespond(i, d)
    \/ \E a \in Actions : ClientCall(a)
    \/ \E a \in Actions : ClientSend(a)

SpecRespond == Init /\ [][NextRespond]_vars

\* messages with and without a payload field, posted by the client and by the
\* page's own code
NextPayload ==
    \/ SetBridgeWebView(SomeWebView)
    \/ \E a \in Actions, o \in BOOLEAN : RegisterHandler(a, FALSE, o)
    \/ \E s \in Scripts : HandleBridgeMessage(s)
    \/ \E a \in Actions : ClientCall(a)
    \/ \E a \in Actions : ClientSend(a)
    \/ \E a \in Actions, p \in OwnPayloads, r \in ForeignRequestIds : PostOwn(a, p, r)

SpecPayload == Init /\ [][NextPayload]_vars

\* notifications of the client with every kind of payload, for two actions
NextRoundTrip ==
    \/ \E a \in Actions \cup OtherActions : RegisterHandler(a, FALSE, FALSE)
    \/ \E a \in Actions \cup OtherActions : UnregisterHandler(a)
    \/ \E s \in QuietScripts : HandleBridgeMessage(s)
    \/ \E a \in Actions \cup OtherActions, p \in ClientPayloads : ClientSendPayload(a, p)

SpecRoundTrip == Init /\ [][NextRoundTrip]_vars

\* the registry operations on two actions, with and without a timeout, and
\* notifications dispatched in between
NextRegistry ==
    \/ \E a \in Actions \cup OtherActions, t \in BOOLEAN : RegisterHandler(a, t, FALSE)
    \/ \E a \in Actions \cup OtherActions : UnregisterHandler(a)
    \/ ClearHandlers
    \/ \E s \in QuietScripts : HandleBridgeMessage(s)
    \/ \E a \in Actions \cup OtherActions : ClientSendPayload(a, EmptyPayload)

SpecRegistry == Init /\ [][NextRegistry]_vars

\* the client script is made and run again, in new documents, between the
\* messages of the client
NextToken ==
    \/ MakeScript
    \/ \E k \in 1..MaxScripts : LoadPage(k)
    \/ \E a \in Actions : RegisterHandler(a, FALSE, FALSE)
    \/ \E s \in QuietScripts : HandleBridgeMessage(s)
    \/ \E a \in Actions : ClientCall(a)
    \/ \E a \in Actions : ClientSend(a)
    \/ \E k \in {"send", "call"}, a \in Actions : ClientIssueBlob(k, a)
    \/ \E k \in 1..MaxConverting : ConversionDone(k)

SpecToken == Init /\ [][NextToken]_vars

\* notifications and requests of the client whose payloads hold a Blob, under
\* an own key or deeper
NextBlob ==
    \/ \E a \in Actions : RegisterHandler(a, FALSE, FALSE)
    \/ \E s \in QuietScripts : HandleBridgeMessage(s)
    \/ \E a \in Actions, p \in FormPayloads : ClientSendPayload(a, p)
    \/ \E k \in {"send", "call"}, a \in Actions, p \in FormPayloads : ClientIssuePayload(k, a, p)
    \/ \E k \in 1..MaxConverting : ConversionDone(k)

SpecBlob == Init /\ [][NextBlob]_vars

\* messages of the host delivered to a page that listens with on and once
NextListen ==
    \/ SetBridgeWebView(SomeWebView)
    \/ \E a \in WebActions, d \in Data : SendEvent(a, d)
    \/ DeliverToWeb
    \/ \E a \in WebActions \cup {"*"}, cb \in Callbacks : ClientOn(a, cb)
    \/ \E a \in WebActions, cb \in Callbacks : ClientOnce(a, cb)

SpecListen == Init /\ [][NextListen]_vars

\* messages of two actions delivered to a page that waits with waitFor
NextWait ==
    \/ SetBridgeWebView(SomeWebView)
    \/ \E a \in WebActions \cup OtherWebActions, d \in Data : SendEvent(a, d)
    \/ DeliverToWeb
    \/ \E a \in WebActions : ClientWaitFor(a)
    \/ \E k \in 1..MaxWaits : WaitTimeout(k)

SpecWait == Init /\ [][NextWait]_vars

\* replies and notifications of the host delivered to a page that listens
\* with on('*', cb)
NextWildcard ==
    \/ SetBridgeWebView(SomeWebView)
    \/ \E s \in QuietScripts : HandleBridgeMessage(s)
    \/ \E a \in Actions : ClientCall(a)
    \/ \E a \in WebActions, d \in Data : SendEvent(a, d)
    \/ DeliverToWeb
    \/ \E cb \in Callbacks : ClientOn("*", cb)

SpecWildcard == Init /\ [][NextWildcard]_vars

\* messages delivered to a page that registers callbacks for two actions with
\* on and removes them with off
NextOff ==
    \/ SetBridgeWebView(SomeWebView)
    \/ \E a \in WebActions, d \in Data : SendEvent(a, d)
    \/ DeliverToWeb
    \/ \E a \in WebActions \cup OtherWebActions, cb \in Callbacks : ClientOn(a, cb)
    \/ \E a \in WebActions \cup OtherWebActions, cb \in Callbacks \cup {""} : ClientOff(a, cb)

SpecOff == Init /\ [][NextOff]_vars

\* requests of the status bar handlers in any order
NextStatusBar ==
    \/ \E p \in StatusBarPayloads : SetStatusBar(p)
    \/ RestoreStatusBar
    \/ GetStatusBar

SpecStatusBar == Init /\ [][NextStatusBar]_vars

\* the events of WebViewContainer, and notifications sent in between
NextContainer ==
    \/ ContainerMount
    \/ ContainerUnmount
    \/ HandleError
    \/ HandleRetry
    \/ \E n \in 0..1 : HandleDomState(n)
    \/ \E a \in WebActions, d \in Data : SendEvent(a, d)

SpecContainer == Init /\ [][NextContainer]_vars

\* messages delivered to a page that registers callbacks with once and calls
\* off with them
NextOnceOff ==
    \/ SetBridgeWebView(SomeWebView)
    \/ \E a \in WebActions, d \in Data : SendEvent(a, d)
    \/ DeliverToWeb
    \/ \E a \in WebActions, cb \in Callbacks : ClientOnce(a, cb)
    \/ \E a \in WebActions, cb \in Callbacks : ClientOff(a, cb)

SpecOnceOff == Init /\ [][NextOnceOff]_vars

\* the client script runs again in a page that has pending requests and
\* listeners
NextRerun ==
    \/ SetBridgeWebView(SomeWebView)
    \/ MakeScript
    \/ \E k \in 1..MaxScripts : RunScript(k)
    \/ \E a \in Actions : ClientCall(a)
    \/ \E a \in WebActions, cb \in Callbacks : ClientOn(a, cb)
    \/ \E a \in WebActions, d \in Data : SendEvent(a, d)
    \/ DeliverToWeb

SpecRerun == Init /\ [][NextRerun]_vars

\* requests whose handlers respond later or run into their timeout, while the
\* registry is changed under them
NextReplace ==
    \/ SetBridgeWebView(SomeWebView)
    \/ \E a \in Actions, t \in BOOLEAN : RegisterHandler(a, t, FALSE)
    \/ \E a \in Actions : UnregisterHandler(a)
    \/ ClearHandlers
    \/ \E s \in QuietScripts : HandleBridgeMessage(s)
    \/ \E i \in 1..MaxPosted, d \in Data : HandlerRespond(i, d)
    \/ \E i \in 1..MaxPosted : HandlerTimeout(i)
    \/ \E a \in Actions : ClientCall(a)
    \/ \E a \in Actions, r \in ForeignRequestIds \ {NoId} : PostOwn(a, EmptyPayload, r)

SpecReplace == Init /\ [][NextReplace]_vars

\* the microphone handlers, the Microphone module and the WebView
NextRecording ==
    \/ \E w \in {NoWebView, SomeWebView} : SetBridgeWebView(w)
    \/ \E success \in BOOLEAN : StartRecording(success)
    \/ \E success \in BOOLEAN : StopRecording(success)
    \/ AudioChunk
    \/ DeliverToWeb

SpecRecording == Init /\ [][NextRecording]_vars

\* the camera handlers, their timers and the WebView
NextCamera ==
    \/ \E w \in {NoWebView, SomeWebView} : SetBridgeWebView(w)
    \/ \E r \in BOOLEAN : SetCameraRef(r)
    \/ \E k \in EventKeys \cup {""}, granted \in BOOLEAN : StartCamera(k, granted)
    \/ StopCamera
    \/ \E i \in 1..MaxBuiltIn, base64 \in BOOLEAN : FrameTick(i, base64)
    \/ DeliverToWeb

SpecCamera == Init /\ [][NextCamera]_vars

----------------------------------------------------------------------------
(* Claims *)

\* the sendToWeb calls an invocation made that carry a bridgeResponse
RepliesOf(i) ==
    { k \in DOMAIN sendLog : sendLog[k].inv = i /\ sendLog[k].action = "bridgeResponse" }

\* those of them that reached the page (a WebView was attached)
InjectedRepliesOf(i) == { k \in RepliesOf(i) : sendLog[k].injected }

\* C1: for every handler invocation of a request that carries a requestId, the
\* host sends at most one bridgeResponse, whatever the handler does (respond
\* calls, the handler timeout, a synchronous throw).
C1_AtMostOneReply ==
    \A i \in DOMAIN invs :
        invs[i].requestId /= NoId => Cardinality(InjectedRepliesOf(i)) <= 1

\* C2: a message with the app:// prefix whose token is absent or is not the
\* session token invokes no handler, sends no reply and makes
\* handleBridgeMessage return false.
C2_TokenEnforced ==
    (last.handled > 0 /\ last.token /= SECURITY_TOKEN)
        => (~last.ret /\ ~last.invoked /\ last.sent = 0)

\* C9: when the promise returned by an async handler rejects with an error, the
\* host sends a failure bridgeResponse for the request with that error's message.
C9_RejectionReplied ==
    \A i \in DOMAIN invs :
        (invs[i].outcome = "rejected" /\ invs[i].requestId /= NoId)
            => \E k \in RepliesOf(i) :
                   /\ ~sendLog[k].payload.success
                   /\ sendLog[k].payload.requestId = invs[i].requestId
                   /\ sendLog[k].payload.error = invs[i].error

\* the two parts of C10: when a handler throws an Error synchronously while it
\* handles a request with a requestId, handleBridgeMessage sends a failure bridgeResponse for that
\* requestId with the error's message and returns true instead of throwing; and a
\* message dispatched in any later state to a registered handler is still handed
\* to that handler.
C10_ThrowReplied ==
    \A i \in DOMAIN invs :
        (invs[i].outcome = "threw" /\ invs[i].requestId /= NoId
                                   /\ invs[i].error \in ErrorMessages)
            => \E k \in RepliesOf(i) :
                   sendLog[k].payload =
                       WebPayload(invs[i].requestId, FALSE, "", invs[i].error, "")

C10_DispatchGoesOn ==
    (/\ \E i \in DOMAIN invs : invs[i].outcome = "threw"
     /\ toHost /= <<>>
     /\ toHost' = Tail(toHost)
     /\ IsBridgeMessage(Head(toHost))
     /\ Head(toHost).protocol[2] \in DOMAIN handlers
     /\ handlers[Head(toHost).protocol[2]].kind = "user")
        => /\ Len(invs') = Len(invs) + 1
           /\ last'.ret
           /\ last'.invoked
           /\ \A a \in DOMAIN handlers :
                  a \in DOMAIN handlers' \/ (a = Head(toHost).protocol[2] /\ handlers[a].once)

\* C10: a synchronous throw of a handler is answered with a failure reply that
\* carries the error's message, does not escape handleBridgeMessage, and leaves
\* the dispatch of later messages intact.
C10_ThrowContained == [](C10_ThrowReplied) /\ [][C10_DispatchGoesOn]_vars

\* C10 witness: the handler of a request threw and its failure reply was injected;
\* the next message was handed to its handler, which responded and returned.
C10_Witness ==
    \E i, j \in DOMAIN invs :
        /\ i < j
        /\ invs[i].outcome = "threw"
        /\ invs[i].requestId /= NoId
        /\ invs[i].error \in ErrorMessages
        /\ \E k \in InjectedRepliesOf(i) : ~sendLog[k].payload.success
        /\ invs[j].outcome = "returned"
        /\ invs[j].responded
        /\ last.ret

\* the bridgeResponse scripts injected for a requestId
InjectedFor(id) ==
    { k \in DOMAIN sendLog :
        /\ sendLog[k].action = "bridgeResponse"
        /\ sendLog[k].injected
        /\ sendLog[k].payload.requestId = id }

\* C3: the promise of an AppBridge.call is settled by at most one resolve or
\* reject call, and it is settled exactly when its reply or its timeout has
\* happened: resolved only by a reply, rejected by a reply or by the timeout.
C3_CallSettlesOnce ==
    \A n \in DOMAIN calls :
        /\ calls[n].settles <= 1
        /\ (calls[n].state = "pending") <=> (calls[n].timer = "armed")
        /\ (calls[n].state = "pending") <=> (calls[n].settles = 0)
        /\ calls[n].state = "resolved" => calls[n].timer = "cleared"
        /\ calls[n].state = "rejected" =>
              \/ calls[n].timer = "cleared"
              \/ /\ calls[n].timer = "fired"
                 /\ calls[n].value = "Request timeout: " \o calls[n].action

\* C3 witness: the host injected two replies for one request (each one reaches
\* _handleMessage twice), all were delivered, and the call is resolved.
C3_Witness ==
    \E n \in DOMAIN calls :
        /\ calls[n].state = "resolved"
        /\ Cardinality(InjectedFor(calls[n].id)) >= 2
        /\ toWeb = <<>>

\* C4: when the handler timeout fires for a request with a requestId, the host
\* sends a bridgeResponse with success = false and error 'Handler timeout:
\* <action>', and the AppBridge.call that receives it is rejected with that text.
C4_TimeoutReplyIsFailure ==
    \A i \in DOMAIN invs :
        (invs[i].timer = "fired" /\ invs[i].requestId /= NoId)
            => /\ \E k \in RepliesOf(i) :
                      sendLog[k].payload =
                          WebPayload(invs[i].requestId, FALSE, "",
                                     "Handler timeout: " \o invs[i].action, "")
               /\ \A n \in DOMAIN calls :
                      (calls[n].id = invs[i].requestId /\ calls[n].timer = "cleared")
                          => /\ calls[n].state = "rejected"
                             /\ calls[n].value = "Handler timeout: " \o invs[i].action

\* C6: once the timeout of an AppBridge.call has fired, the call stays rejected
\* with the timeout error whatever is delivered later: a late reply finds no
\* pending entry, settles nothing and throws nothing.
C6_LateReplyDropped ==
    /\ ~clientThrew
    /\ \A n \in DOMAIN calls :
           calls[n].timer = "fired"
               => /\ calls[n].state = "rejected"
                  /\ calls[n].value = "Request timeout: " \o calls[n].action
                  /\ calls[n].settles = 1
                  /\ calls[n].id \notin DOMAIN pendingRequests

\* C6 witness: the timeout fired and a reply for the request was delivered to
\* the page afterwards (a reply delivered before would have cleared the timer).
C6_Witness ==
    \E n \in DOMAIN calls :
        /\ calls[n].timer = "fired"
        /\ InjectedFor(calls[n].id) /= {}
        /\ toWeb = <<>>

\* C7: pendingRequests holds an entry for a requestId exactly while the call
\* that created it is unsettled, with its timer armed; a settled call has no
\* entry and no armed timer.
C7_PendingOnlyWhileUnsettled ==
    /\ \A id \in DOMAIN pendingRequests :
           /\ pendingRequests[id] \in DOMAIN calls
           /\ calls[pendingRequests[id]].id = id
           /\ calls[pendingRequests[id]].state = "pending"
           /\ calls[pendingRequests[id]].timer = "armed"
    /\ \A n \in DOMAIN calls :
           calls[n].state /= "pending"
               => /\ calls[n].id \notin DOMAIN pendingRequests
                  /\ calls[n].timer \in {"cleared", "fired"}

\* C7 witness: a call was settled by a failure reply; its entry is gone and its
\* timer is cleared.
C7_Witness ==
    \E n \in DOMAIN calls :
        /\ calls[n].state = "rejected"
        /\ calls[n].timer = "cleared"
        /\ calls[n].id \notin DOMAIN pendingRequests

\* C5: when the timeout of a callWeb request has fired, its promise is rejected
\* with 'Request timeout: <action>' and the registry holds no one-shot handler
\* __response_<requestId> for it.
C5_TimeoutRemovesHandler ==
    \A n \in DOMAIN hostCalls :
        hostCalls[n].timer = "fired"
            => /\ hostCalls[n].state = "rejected"
               /\ hostCalls[n].value = "Request timeout: " \o hostCalls[n].action
               /\ ResponseHandlerName(hostCalls[n].id) \notin DOMAIN handlers

\* this step hands a reply of the page to the one-shot handler of callWeb request n
ReplyHandled(n) ==
    /\ toHost /= <<>>
    /\ toHost' = Tail(toHost)
    /\ IsBridgeMessage(Head(toHost))
    /\ Head(toHost).protocol[2] = ResponseHandlerName(hostCalls[n].id)
    /\ Head(toHost).protocol[2] \in DOMAIN handlers

\* this step fires the timeout timer of callWeb request n
TimerFired(n) == hostCalls[n].timer = "armed" /\ hostCalls'[n].timer = "fired"

\* the step condition of C8: a callWeb promise is settled by the first of {reply
\* handed to its one-shot handler, timeout}: a success reply resolves it with reply.data, a
\* failure reply rejects it (with reply.error when the reply carries one), the
\* timeout rejects it with the timeout error; a settled promise never changes
\* again, and handleBridgeMessage returns true for a late or a second reply.
C8_Step ==
    \A n \in DOMAIN hostCalls :
        /\ hostCalls[n].state /= "pending"
              => /\ hostCalls'[n].state = hostCalls[n].state
                 /\ hostCalls'[n].value = hostCalls[n].value
        /\ (hostCalls[n].state = "pending" /\ ReplyHandled(n))
              => LET reply == Head(toHost).payload
                 IN  /\ reply.success
                        => /\ hostCalls'[n].state = "resolved"
                           /\ hostCalls'[n].value = reply.data
                     /\ ~reply.success => hostCalls'[n].state = "rejected"
                     /\ (~reply.success /\ reply.error /= NoError)
                        => hostCalls'[n].value = reply.error
        /\ TimerFired(n)
              => /\ hostCalls'[n].state = "rejected"
                 /\ hostCalls'[n].value = "Request timeout: " \o hostCalls[n].action
        /\ (hostCalls[n].state = "pending" /\ hostCalls'[n].state /= "pending")
              => (ReplyHandled(n) \/ TimerFired(n))
        /\ (toHost /= <<>> /\ toHost' = Tail(toHost)) => last'.ret

\* C8: every step settles a callWeb promise at most once, by the first of
\* {success reply, failure reply, timeout} with the matching outcome, and a late
\* or second reply neither changes the settled promise nor throws.
C8_CallWebSettlesOnce == [][C8_Step]_vars

\* C8 witness: the timeout rejected the promise, then a reply reached the
\* one-shot handler, which called resolve or reject on the settled promise.
C8_Witness ==
    \E n \in DOMAIN hostCalls :
        /\ hostCalls[n].timer = "fired"
        /\ hostCalls[n].state = "rejected"
        /\ hostCalls[n].value = "Request timeout: " \o hostCalls[n].action
        /\ hostCalls[n].settles = 2

----------------------------------------------------------------------------
(* Unknown actions, undecodable messages, once handlers *)

\* this step is handleBridgeMessage for a message whose action has no handler
UnknownActionHandled ==
    /\ toHost /= <<>>
    /\ toHost' = Tail(toHost)
    /\ IsBridgeMessage(Head(toHost))
    /\ Head(toHost).protocol[2] \notin DOMAIN handlers

\* the failure reply for an unknown action
UnknownActionReply(msg) ==
    WebPayload(msg.requestId, FALSE, "", "Unknown action: " \o msg.protocol[2], "")

\* the step condition of C11
C11_Step ==
    UnknownActionHandled
        => LET msg == Head(toHost)
           IN  /\ invs' = invs
               /\ handlers' = handlers
               /\ last'.ret
               /\ msg.requestId = NoId => (sendLog' = sendLog /\ toWeb' = toWeb)
               /\ msg.requestId /= NoId
                     => /\ sendLog' = Append(sendLog,
                                             [action |-> "bridgeResponse",
                                              payload |-> UnknownActionReply(msg),
                                              inv |-> 0, injected |-> Attached])
                        /\ Attached
                              => toWeb' = Append(toWeb, [action |-> "bridgeResponse",
                                                         payload |-> UnknownActionReply(msg)])

\* C11: for a message whose action has no registered handler, the host sends
\* exactly one bridgeResponse with success = false and error 'Unknown action:
\* <action>' for the message's requestId, and sends nothing when the message
\* carries no requestId; no handler runs and handleBridgeMessage returns true.
C11_UnknownAction == [][C11_Step]_vars

\* C11 witness: a request for an action without a handler was handled with a
\* WebView attached, and exactly one reply, the unknown-action failure, was
\* injected for it.
C11_Witness ==
    /\ last.handled > 0
    /\ last.requestId /= NoId
    /\ ~last.invoked
    /\ last.sent = 1
    /\ sendLog /= <<>>
    /\ LET e == sendLog[Len(sendLog)]
       IN  /\ e.injected
           /\ e.inv = 0
           /\ e.payload = WebPayload(last.requestId, FALSE, "", "Unknown action: echo", "")

\* the inputs of C12: text that is not JSON, and JSON whose protocol field is
\* missing (null and scalars have none), is not a string, or does not start
\* with app://
C12_NotAccepted(messageData) ==
    \/ IsRawText(messageData)
    \/ messageData.protocol[1] /= AppScheme

\* the step condition of C12
C12_Step ==
    (toHost /= <<>> /\ toHost' = Tail(toHost) /\ C12_NotAccepted(Head(toHost)))
        => /\ ~last'.ret
           /\ ~last'.threw
           /\ ~last'.invoked
           /\ last'.sent = 0
           /\ UNCHANGED <<handlers, invs, sendLog, toWeb, hostCalls, webViewInstance>>

\* C12: for a string that is not valid JSON, or whose protocol field is missing
\* or does not start with app://, handleBridgeMessage returns false, invokes no
\* handler, sends no reply, throws nothing and leaves the registry unchanged.
C12_NotBridgeIgnored == [][C12_Step]_vars

\* C12 witness: after a request was dispatched to a handler, with a handler
\* registered and a WebView attached, the host has handled a string that holds
\* no message object (so no token either) and returned false.
C12_Witness ==
    /\ last.handled >= 2
    /\ last.token = ""
    /\ ~last.ret
    /\ ~last.threw
    /\ handlers /= EmptyMap
    /\ Attached
    /\ invs /= <<>>

\* this step is handleBridgeMessage handing a message to a handler that was
\* registered with once: true
OnceDispatched ==
    /\ toHost /= <<>>
    /\ toHost' = Tail(toHost)
    /\ IsBridgeMessage(Head(toHost))
    /\ Head(toHost).protocol[2] \in DOMAIN handlers
    /\ handlers[Head(toHost).protocol[2]].kind = "user"
    /\ handlers[Head(toHost).protocol[2]].once

\* the step condition of C13: the dispatch of a once handler runs the handler
\* and, unless its body registers again, leaves no entry for the action; and a
\* message for an action without an entry runs no handler and gets the
\* unknown-action failure when it carries a requestId
C13_Step ==
    /\ OnceDispatched
          => /\ Len(invs') = Len(invs) + 1
             /\ invs'[Len(invs')].registered = "none"
                   => Head(toHost).protocol[2] \notin DOMAIN handlers'
    /\ UnknownActionHandled
          => /\ invs' = invs
             /\ Head(toHost).requestId = NoId => sendLog' = sendLog
             /\ Head(toHost).requestId /= NoId
                   => /\ Len(sendLog') = Len(sendLog) + 1
                      /\ sendLog'[Len(sendLog')].payload = UnknownActionReply(Head(toHost))

\* C13: after a handler registered with once: true has been dispatched once it
\* is no longer in the registry, and a second message for the same action is
\* treated as an unknown action, whether or not the first invocation called
\* respond.
C13_OnceRemoved == [][C13_Step]_vars

\* C13 witness: one invocation ran and never called respond; nothing but the
\* once option removes an entry here, the registry has none for the action, and
\* the second request for the action got the unknown-action failure.
C13_Witness ==
    /\ Len(invs) = 1
    /\ ~invs[1].responded
    /\ invs[1].registered = "none"
    /\ invs[1].action \notin DOMAIN handlers
    /\ last.handled = 2
    /\ ~last.invoked
    /\ last.requestId /= NoId
    /\ sendLog /= <<>>
    /\ sendLog[Len(sendLog)].injected
    /\ sendLog[Len(sendLog)].payload =
          WebPayload(last.requestId, FALSE, "", "Unknown action: " \o invs[1].action, "")

\* the step condition of C15: when the body of a once handler registers a
\* handler for its own action, that registration is in the registry after the
\* dispatch; and a message for an action with an entry runs that entry
C15_Step ==
    /\ (OnceDispatched /\ invs'[Len(invs')].registered /= "none")
          => LET a == Head(toHost).protocol[2]
             IN  /\ a \in DOMAIN handlers'
                 /\ handlers'[a].kind = "user"
                 /\ handlers'[a].once = (invs'[Len(invs')].registered = "once")
    /\ (/\ toHost /= <<>>
        /\ toHost' = Tail(toHost)
        /\ IsBridgeMessage(Head(toHost))
        /\ Head(toHost).protocol[2] \in DOMAIN handlers)
          => /\ Len(invs') = Len(invs) + 1
             /\ invs'[Len(invs')].action = Head(toHost).protocol[2]
             /\ last'.invoked

\* C15: with once: true the entry is removed before the handler body runs, so a
\* registerHandler call for the same action made inside the body is not deleted
\* by the once cleanup and serves the next message for that action.
C15_ReentrantRegistration == [][C15_Step]_vars

\* C15 witness: the body of a once handler registered a handler for its own
\* action, and the next message for the action was handed to a handler.
C15_Witness ==
    /\ Len(invs) = 2
    /\ invs[1].registered = "keep"
    /\ invs[1].inOnce
    /\ invs[2].action = invs[1].action
    /\ invs[2].responded
    /\ last.handled = 2
    /\ last.invoked
    /\ invs[1].action \in DOMAIN handlers
    /\ ~handlers[invs[1].action].once

----------------------------------------------------------------------------
(* respond and the handler timeout within one invocation *)

\* the replies invocation i produced through respond (by a respond call of the
\* handler or by the timer callback); the reply of the catch block is not one
RespondRepliesOf(i) == { k \in RepliesOf(i) : sendLog[k].payload.success }

\* one invocation: a reply produced through respond exists exactly when
\* responded is set, and there is one at most; it is the timeout reply exactly
\* when the timer fired, which it can do only before any respond call
C14_FirstWins ==
    \A i \in DOMAIN invs :
        invs[i].requestId /= NoId
            => /\ Cardinality(RespondRepliesOf(i)) = IF invs[i].responded THEN 1 ELSE 0
               /\ invs[i].timer = "armed" => ~invs[i].responded
               /\ invs[i].timer = "cleared" => invs[i].responded
               /\ \A k \in RespondRepliesOf(i) :
                      /\ sendLog[k].payload.requestId = invs[i].requestId
                      /\ (sendLog[k].payload.data = TimeoutData(invs[i].action))
                            <=> (invs[i].timer = "fired")

\* a respond call or a timer callback of an invocation that has responded
\* already sends nothing and changes nothing
C14_LaterCallsNoOp ==
    \A i \in DOMAIN invs :
        invs[i].responded
            => /\ invs'[i].responded
               /\ RespondRepliesOf(i)' = RespondRepliesOf(i)
               /\ invs'[i].timer = invs[i].timer

\* C14: within one handler invocation only the first of {a respond call, the
\* handler timeout} produces a reply; later respond calls, also those after
\* the timeout reply, have no effect, and no timeout reply follows a respond
\* call.
C14_RespondIdempotent == [](C14_FirstWins) /\ [][C14_LaterCallsNoOp]_vars

\* C14 witness: the timer of an invocation fired first, its reply was injected,
\* and it is the only reply of the invocation.
C14_Witness ==
    \E i \in DOMAIN invs :
        /\ invs[i].requestId /= NoId
        /\ invs[i].timer = "fired"
        /\ invs[i].responded
        /\ invs[i].outcome = "returned"
        /\ Cardinality(InjectedRepliesOf(i)) = 1
        /\ \E k \in InjectedRepliesOf(i) :
               sendLog[k].payload.data = TimeoutData(invs[i].action)

----------------------------------------------------------------------------
(* Requests in flight at the same time *)

\* this step runs an injected bridgeResponse in the page
ReplyDelivered == toWeb /= <<>> /\ toWeb' = Tail(toWeb) /\ Head(toWeb).action = "bridgeResponse"

\* the step condition of C16: a delivered reply settles the pending call whose
\* requestId it carries, by its success flag, and leaves every other call and
\* every other pending entry as they were
C16_Step ==
    ReplyDelivered
        => LET reply == Head(toWeb).payload
           IN  /\ \A n \in DOMAIN calls :
                      calls[n].id /= reply.requestId => calls'[n] = calls[n]
               /\ \A n \in DOMAIN calls :
                      (calls[n].id = reply.requestId /\ calls[n].state = "pending")
                          => /\ calls'[n].state = IF reply.success THEN "resolved" ELSE "rejected"
                             /\ reply.success => calls'[n].value = reply.data
                             /\ calls'[n].settles = 1
               /\ DOMAIN pendingRequests' = DOMAIN pendingRequests \ {reply.requestId}

\* C16: when several AppBridge.call requests for one action are in flight, each
\* reply settles only the promise whose requestId equals the reply's requestId,
\* in whatever order the replies arrive.
C16_RepliesCorrelated == [][C16_Step]_vars

\* C16 witness: two calls for one action were dispatched to the handler; the
\* reply of the second was delivered first and resolved the second call, while
\* the first call is still pending.
C16_Witness ==
    /\ Len(calls) >= 2
    /\ calls[1].action = calls[2].action
    /\ \E i \in DOMAIN invs : invs[i].requestId = calls[1].id
    /\ calls[1].state = "pending"
    /\ calls[1].id \in DOMAIN pendingRequests
    /\ InjectedFor(calls[1].id) = {}
    /\ calls[2].state = "resolved"
    /\ toWeb = <<>>

\* every reply of an invocation carries the requestId of that invocation, and
\* an invocation that has not responded can still do so, whatever the other
\* invocations have done: its respond call sends its reply, and its timer, if
\* it has one, is still armed
C17_OwnFlagAndTimer ==
    /\ \A k \in DOMAIN sendLog :
           sendLog[k].inv \in DOMAIN invs
               => sendLog[k].payload.requestId = invs[sendLog[k].inv].requestId
    /\ \A i \in DOMAIN invs :
           (~invs[i].responded /\ invs[i].requestId /= NoId)
               => /\ RespondRepliesOf(i) = {}
                  /\ invs[i].timer \in {"none", "armed"}
                  /\ \A d \in Data :
                         ENABLED (HandlerRespond(i, d) /\ Cardinality(RespondRepliesOf(i))' = 1)
                  /\ invs[i].timer = "armed"
                         => ENABLED (HandlerTimeout(i) /\ Cardinality(RespondRepliesOf(i))' = 1)

\* a step that changes one invocation or adds a reply of it (a respond call,
\* its timer) leaves every other invocation and the replies of every other
\* invocation as they were; so does the dispatch of a new message
C17_OthersUntouched ==
    /\ \A i \in DOMAIN invs :
           (invs'[i] /= invs[i] \/ RepliesOf(i)' /= RepliesOf(i))
               => \A j \in DOMAIN invs \ {i} :
                      invs'[j] = invs[j] /\ RepliesOf(j)' = RepliesOf(j)
    /\ Len(invs') > Len(invs)
           => \A j \in DOMAIN invs : invs'[j] = invs[j] /\ RepliesOf(j)' = RepliesOf(j)

\* C17: concurrent invocations of one handler each have their own responded flag
\* and timeout timer: a respond call or a timeout of one invocation neither
\* suppresses nor triggers the reply of another, and every reply carries the
\* requestId of the invocation that produced it.
C17_InvocationsIndependent == [](C17_OwnFlagAndTimer) /\ [][C17_OthersUntouched]_vars

\* C17 witness: two invocations of one handler, for different requests; the
\* timer of the first fired and sent its reply, then the second responded with
\* its own data, and each has exactly one injected reply.
C17_Witness ==
    \E i, j \in DOMAIN invs :
        /\ i < j
        /\ invs[i].action = invs[j].action
        /\ invs[i].requestId /= NoId
        /\ invs[j].requestId /= NoId
        /\ invs[i].requestId /= invs[j].requestId
        /\ invs[i].timer = "fired"
        /\ invs[j].timer = "cleared"
        /\ Cardinality(InjectedRepliesOf(i)) = 1
        /\ Cardinality(InjectedRepliesOf(j)) = 1
        /\ \E k \in InjectedRepliesOf(i), l \in InjectedRepliesOf(j) :
               /\ k < l
               /\ sendLog[k].payload.data = TimeoutData(invs[i].action)
               /\ sendLog[l].payload.data \in Data

----------------------------------------------------------------------------
(* Order of the messages of the page *)

\* the step condition of C18: a step that posts a message of the client posts
\* the message of the operation issued earliest among those not posted yet;
\* the operations in converting were issued before any operation that starts
\* in this step, the first of them earliest
C18_Step ==
    Len(toHost') = Len(toHost) + 1
        => (converting = <<>> \/ converting' = Tail(converting))

----------------------------------------------------------------------------
(* sendToWeb and callWeb without a WebView *)

\* the scripts sendToWeb has injected, in order
InjectedScripts ==
    LET sent == SelectSeq(sendLog, LAMBDA e : e.injected)
    IN  [k \in DOMAIN sent |-> [action |-> sent[k].action, payload |-> sent[k].payload]]

\* the scripts that wait to run in the page are the last of the injected ones:
\* a message sendToWeb was given without a WebView is not among them
C19_NotQueued ==
    /\ Len(toWeb) <= Len(InjectedScripts)
    /\ toWeb = SubSeq(InjectedScripts, Len(InjectedScripts) - Len(toWeb) + 1,
                      Len(InjectedScripts))

\* this step is a sendToWeb call of the application
EventSent ==
    /\ Len(sendLog') = Len(sendLog) + 1
    /\ sendLog'[Len(sendLog')].action \in WebActions
    /\ sendLog'[Len(sendLog')].payload.responseAction = ""

\* without a WebView no step injects anything, and a sendToWeb call changes
\* nothing of the bridge: registry, attachment, invocations, callWeb promises
C19_DetachedNoOp ==
    ~Attached
        => /\ Len(toWeb') <= Len(toWeb)
           /\ EventSent
                 => /\ toWeb' = toWeb
                    /\ ~sendLog'[Len(sendLog')].injected
                    /\ UNCHANGED <<handlers, webViewInstance, invs, hostCalls, toHost, last>>

\* C19: with no WebView attached sendToWeb injects nothing, throws nothing and
\* leaves the registry and the attachment unchanged; the message is not queued
\* and is never delivered after a WebView is attached later.
C19_SendWithoutWebView == [](C19_NotQueued) /\ [][C19_DetachedNoOp]_vars

\* C19 witness: the application called sendToWeb without a WebView; a WebView
\* was attached afterwards, a later sendToWeb call was injected and has run in
\* the page, and nothing waits to run.
C19_Witness ==
    /\ Attached
    /\ toWeb = <<>>
    /\ \E k, l \in EventsSent :
           /\ k < l
           /\ ~sendLog[k].injected
           /\ sendLog[l].injected

\* the sendToWeb call callWeb request n made
RequestSent(n) ==
    { k \in DOMAIN sendLog :
        /\ sendLog[k].payload.requestId = hostCalls[n].id
        /\ sendLog[k].payload.responseAction /= "" }

\* C20: a callWeb issued while no WebView is attached rejects immediately, that
\* is before its timeout timer fires, instead of waiting for the timeout.
C20_RejectsWhenDetached ==
    \A n \in DOMAIN hostCalls :
        (\E k \in RequestSent(n) : ~sendLog[k].injected)
            => /\ hostCalls[n].state = "rejected"
               /\ hostCalls[n].timer /= "fired"

----------------------------------------------------------------------------
(* Termination of requests *)

\* the n-th AppBridge.call, or callWeb, has been made and is settled
CallSettled(n) == n \in DOMAIN calls /\ calls[n].state /= "pending"
HostCallSettled(n) == n \in DOMAIN hostCalls /\ hostCalls[n].state /= "pending"

\* C21: every AppBridge.call and every callWeb eventually settles; when no
\* reply settles it, its timeout timer fires and rejects it with 'Request
\* timeout: <action>'; it never stays pending forever.
C21_EventuallySettles ==
    /\ \A n \in 1..MaxCalls : (n \in DOMAIN calls) ~> CallSettled(n)
    /\ \A n \in 1..MaxHostCalls : (n \in DOMAIN hostCalls) ~> HostCallSettled(n)

----------------------------------------------------------------------------
(* What respond sends *)

\* the sendToWeb call respond(d) of invocation i makes
RespondEntry(i, d) ==
    [action |-> "bridgeResponse",
     payload |-> WebPayload(invs[i].requestId, TRUE, d, NoError, ""),
     inv |-> i, injected |-> Attached]

\* C22: when the handler of a message with requestId r calls respond(d), the
\* host sends a bridgeResponse with payload {requestId: r, success: true,
\* data: d}; when the message carries no requestId, respond sends nothing.
C22_RespondPayload ==
    \A i \in DOMAIN invs :
        /\ \A k \in RespondRepliesOf(i) :
               /\ invs[i].requestId /= NoId
               /\ sendLog[k].payload.requestId = invs[i].requestId
               /\ sendLog[k].payload.error = NoError
        /\ ~invs[i].responded
              => \A d \in LateData :
                     ENABLED (/\ HandlerRespond(i, d)
                              /\ invs'[i].responded
                              /\ IF invs[i].requestId /= NoId
                                 THEN sendLog' = Append(sendLog, RespondEntry(i, d))
                                 ELSE sendLog' = sendLog /\ toWeb' = toWeb)

\* C22 witness: the handler of a request responded with data d2 and the reply
\* {requestId, success: true, data: d2} was injected; the handler of a
\* notification responded and nothing was sent for it.
C22_Witness ==
    \E i, j \in DOMAIN invs :
        /\ invs[i].requestId /= NoId
        /\ \E k \in InjectedRepliesOf(i) :
               sendLog[k].payload = WebPayload(invs[i].requestId, TRUE, "d2", NoError, "")
        /\ invs[j].requestId = NoId
        /\ invs[j].responded
        /\ invs[j].outcome = "returned"
        /\ RepliesOf(j) = {}

----------------------------------------------------------------------------
(* The payload a handler receives *)

\* C23: when an inbound message has no payload field, the handler is invoked
\* with an empty object as payload, not with undefined or null.
C23_Step ==
    (/\ toHost /= <<>>
     /\ IsBridgeMessage(Head(toHost))
     /\ Head(toHost).payload = Undefined
     /\ Len(invs') = Len(invs) + 1)
        => invs'[Len(invs')].payload = EmptyPayload

C23_AbsentPayloadIsEmpty == [][C23_Step]_vars

----------------------------------------------------------------------------
(* The return value of handleBridgeMessage *)

\* C24: handleBridgeMessage returns true for every well-formed message with
\* the app:// prefix and a valid token, whether a handler was found and
\* responded, a handler was found and threw, or no handler was found.
C24_Step ==
    (/\ toHost /= <<>>
     /\ last'.handled = last.handled + 1
     /\ ~IsRawText(Head(toHost))
     /\ Head(toHost).protocol[1] = AppScheme
     /\ Head(toHost).token = SECURITY_TOKEN)
        => last'.ret /\ ~last'.threw

C24_ReturnsTrue == [][C24_Step]_vars

\* C24 witness: the handler of the first message responded and threw, no
\* handler was found for the second one, a request, and handleBridgeMessage
\* returned true for it after sending the failure reply.
C24_Witness ==
    /\ last.handled = 2
    /\ last.token = SECURITY_TOKEN
    /\ last.ret
    /\ ~last.invoked
    /\ last.requestId /= NoId
    /\ last.sent = 1
    /\ Len(invs) = 1
    /\ invs[1].responded
    /\ invs[1].outcome = "threw"

----------------------------------------------------------------------------
(* Round trip of a message from the client to the handler *)

\* C25: for every action name and every JSON-serialisable payload without
\* binary values, a message encoded by the client and decoded by
\* handleBridgeMessage reaches the handler registered under exactly that action
\* with a payload structurally equal to the one sent.
C25_Step ==
    (/\ toHost /= <<>>
     /\ last'.handled = last.handled + 1
     /\ IsBridgeMessage(Head(toHost))
     /\ Head(toHost).token = SECURITY_TOKEN
     /\ Head(toHost).arg \in JSONValues
     /\ Head(toHost).protocol[2] \in DOMAIN handlers)
        => /\ Len(invs') = Len(invs) + 1
           /\ invs'[Len(invs')].action = Head(toHost).protocol[2]
           /\ invs'[Len(invs')].payload = Head(toHost).arg

C25_RoundTrip == [][C25_Step]_vars

----------------------------------------------------------------------------
(* The handler registry *)

\* the registry with the entry of action a taken out
Without(a) == [b \in DOMAIN handlers \ {a} |-> handlers[b]]

\* registerHandler adds the entry or replaces the one of the same action and
\* leaves the others alone
C26_RegisterReplaces ==
    \A a \in Actions \cup OtherActions, t \in BOOLEAN :
        ENABLED (/\ RegisterHandler(a, t, FALSE)
                 /\ DOMAIN handlers' = DOMAIN handlers \cup {a}
                 /\ handlers'[a] = UserRegistration(t, FALSE)
                 /\ \A b \in DOMAIN handlers \ {a} : handlers'[b] = handlers[b])

\* unregisterHandler of an absent action changes nothing, of a registered one
\* removes that entry only; clearHandlers leaves the registry empty
C26_UnregisterAndClear ==
    /\ \A a \in (Actions \cup OtherActions) \ DOMAIN handlers :
           MapDelete(handlers, a) = handlers
    /\ \A a \in DOMAIN handlers :
           ENABLED (UnregisterHandler(a) /\ handlers' = Without(a))
    /\ handlers /= EmptyMap => ENABLED (ClearHandlers /\ handlers' = EmptyMap)

\* a dispatched message starts one invocation, with the options of the latest
\* registration of its action
C26_Step ==
    (/\ toHost /= <<>>
     /\ last'.handled = last.handled + 1
     /\ IsBridgeMessage(Head(toHost))
     /\ Head(toHost).protocol[2] \in DOMAIN handlers)
        => /\ Len(invs') = Len(invs) + 1
           /\ invs'[Len(invs')].action = Head(toHost).protocol[2]
           /\ invs'[Len(invs')].timer =
                  IF handlers[Head(toHost).protocol[2]].timeout THEN "armed" ELSE "none"
           /\ handlers' = handlers

\* C26: the handler registry holds at most one handler per action:
\* registerHandler for a registered action replaces the previous handler (only
\* the latest one is invoked on dispatch), unregisterHandler of an absent
\* action changes nothing, unregisterHandler of one action leaves all other
\* actions registered, and clearHandlers leaves the registry empty.
C26_Registry ==
    [](C26_RegisterReplaces /\ C26_UnregisterAndClear) /\ [][C26_Step]_vars

\* C26 witness: the handler of echo ran under a registration with a timeout and
\* again under a later one without, and echo was then unregistered while log
\* stayed registered.
C26_Witness ==
    /\ Len(invs) = 2
    /\ invs[1].action = "echo" /\ invs[1].timer = "armed"
    /\ invs[2].action = "echo" /\ invs[2].timer = "none"
    /\ DOMAIN handlers = {"log"}

----------------------------------------------------------------------------
(* The session token *)

\* C27: the session token never changes within a process: every call of
\* getBridgeClientScript embeds the same token, equal to getSecurityToken(),
\* and every message the client posts with send or call carries that token in
\* __token, from the first message on and across repeated injections of the
\* client script.
C27_TokenConstant ==
    /\ \A k \in DOMAIN scripts : scripts[k].token = GetSecurityToken
    /\ \A k \in DOMAIN scripts :
           InstallClient(appBridge, k, scripts[k]).token = GetSecurityToken
    /\ \A k \in DOMAIN toHost : toHost[k].token = GetSecurityToken
    /\ last.handled > 0 => last.token = GetSecurityToken

\* C27 witness: the second script made the client of the second document, and
\* a message of that client is on its way after another one was handled.
C27_Witness ==
    /\ appBridge.load = 2
    /\ appBridge.script = 2
    /\ last.handled = 1
    /\ toHost /= <<>>
    /\ toHost[1].token = appBridge.token

----------------------------------------------------------------------------
(* Binary values in a payload *)

\* the payload with every Blob in it, at any depth, replaced by its descriptor
RECURSIVE DeepConverted(_)
DeepConverted(value) ==
    CASE IsBlob(value) -> ToBase64(value)
      [] ~IsObject(value) \/ IsFlat(value) -> value
      [] OTHER -> [key \in DOMAIN value |-> DeepConverted(value[key])]

\* C28: processPayload, applied by AppBridge.send and AppBridge.call, replaces
\* every Blob/File value contained in the payload, at any nesting depth, by its
\* base64 descriptor before the message is posted, and leaves all other values
\* unchanged.
C28_BlobsConverted ==
    \A k \in DOMAIN toHost :
        toHost[k].arg \in FormPayloads
            => toHost[k].payload = DeepConverted(toHost[k].arg)

----------------------------------------------------------------------------
(* AppBridge.once *)

\* the calls made so far of the function fn of a listener array
HeardBy(fn) == { k \in DOMAIN heard : heard[k].fn = fn }

\* the wrappers AppBridge.once has made
Wrappers == { "wrapper" \o ToString(n) : n \in 1..appBridge.wrappers }

\* a wrapper is called at most once, and not at all while it is registered
C29_AtMostOnce ==
    \A w \in Wrappers :
        /\ Cardinality(HeardBy(w)) <= 1
        /\ (\E l \in Listening : l.fn = w) => HeardBy(w) = {}

\* the message delivered next calls every wrapper registered for its action,
\* once, with that message, and each of them its callback
C29_Step ==
    (toWeb /= <<>> /\ toWeb' = Tail(toWeb) /\ Head(toWeb).action \in DOMAIN listeners)
        => \A l \in { listeners[Head(toWeb).action][k] :
                         k \in DOMAIN listeners[Head(toWeb).action] } :
               l.kind = "once"
                   => \E k \in DOMAIN heard' :
                          /\ k > Len(heard)
                          /\ heard'[k] = [fn |-> l.fn, cb |-> l.cb, event |-> Delivered + 1]

\* C29: a callback registered with AppBridge.once(action, cb) is invoked for
\* the first message with that action received afterwards and never again, over
\* any sequence of later messages for that action.
C29_OnceListener == []C29_AtMostOnce /\ [][C29_Step]_vars

\* C29 witness: a wrapper of once was called for the first message and a
\* second message of the same action was delivered after that without a call
\* of it, while a listener registered with on heard both.
C29_Witness ==
    /\ Delivered = 2
    /\ \E w \in Wrappers :
           /\ \E k \in HeardBy(w) : heard[k].event = 1
           /\ \E k \in DOMAIN heard : heard[k].fn \notin Wrappers /\ heard[k].event = 2

----------------------------------------------------------------------------
(* AppBridge.waitFor *)

\* the handler of the k-th waitFor call is in the array of its action
WaitListening(k) == \E l \in Listening : l.fn = WaitHandler(k).fn

\* the messages for the action of the k-th waitFor call among those the page
\* has received since the call
HeardSince(k) ==
    { n \in (waits[k].since + 1)..Delivered : InjectedScripts[n].action = waits[k].action }

\* C30: AppBridge.waitFor(action, t) settles exactly once: it resolves with
\* {payload, message} of the first message for that action received before the
\* timeout, otherwise it rejects with 'Timeout waiting for: <action>'; in both
\* cases its listener is removed, so later messages for the action neither
\* re-settle it nor invoke its listener.
C30_WaitForSettlesOnce ==
    \A k \in DOMAIN waits :
        /\ waits[k].settles <= 1
        /\ Cardinality(HeardBy(WaitHandler(k).fn)) <= 1
        /\ waits[k].state = "pending"
              => /\ WaitListening(k)
                 /\ waits[k].timer = "armed"
                 /\ HeardSince(k) = {}
        /\ waits[k].state = "resolved"
              => /\ ~WaitListening(k)
                 /\ waits[k].settles = 1
                 /\ waits[k].timer = "cleared"
                 /\ waits[k].value.event \in HeardSince(k)
                 /\ \A n \in HeardSince(k) : waits[k].value.event <= n
                 /\ waits[k].value.payload = InjectedScripts[waits[k].value.event].payload
                 /\ waits[k].value.error = ""
        /\ waits[k].state = "rejected"
              => /\ ~WaitListening(k)
                 /\ waits[k].settles = 1
                 /\ waits[k].timer = "fired"
                 /\ waits[k].value = WaitError(waits[k].action)
                 /\ HeardBy(WaitHandler(k).fn) = {}

\* C30 witness: one waitFor promise was rejected by its timer and another one
\* resolved with the first ping, and a second ping was delivered after both.
C30_Witness ==
    /\ Delivered = 2
    /\ \E j, k \in DOMAIN waits :
           /\ waits[j].state = "rejected"
           /\ waits[k].state = "resolved"
           /\ waits[k].value.event = 1
           /\ HeardSince(j) /= {}
           /\ Cardinality(HeardSince(k)) = 2

----------------------------------------------------------------------------
(* AppBridge.on('*', callback) *)

\* the message delivered next calls every function registered for '*', with
\* that message
C31_Step ==
    (toWeb /= <<>> /\ toWeb' = Tail(toWeb) /\ "*" \in DOMAIN listeners)
        => \A j \in DOMAIN listeners["*"] :
               \E k \in DOMAIN heard' :
                   /\ k > Len(heard)
                   /\ heard'[k] = [fn |-> listeners["*"][j].fn, cb |-> listeners["*"][j].cb,
                                   event |-> Delivered + 1]

\* C31: a callback registered with AppBridge.on('*', cb) is invoked for every
\* message the client receives from the host, whatever the action of the
\* message is.
C31_WildcardHearsAll == [][C31_Step]_vars

----------------------------------------------------------------------------
(* AppBridge.off *)

\* the functions registered for an action
ListenersOf(ls, a) == IF a \in DOMAIN ls THEN { ls[a][k] : k \in DOMAIN ls[a] } ELSE {}

\* the arrays of all actions but a are the same in ls and in after
SameButFor(ls, after, a) ==
    /\ DOMAIN after \ {a} = DOMAIN ls \ {a}
    /\ \A b \in DOMAIN ls \ {a} : after[b] = ls[b]

\* off(a, cb) is possible in every state and leaves cb out of the array of a,
\* the other functions of that array in it in their order, and the arrays of
\* the other actions as they are; off(a) leaves no function registered for a;
\* both change nothing when a has no array
C32_OffEffect ==
    \A a \in WebActions \cup OtherWebActions :
        /\ \A cb \in Callbacks :
               ENABLED (/\ ClientOff(a, cb)
                        /\ \A l \in ListenersOf(listeners', a) : l.fn /= cb
                        /\ a \in DOMAIN listeners
                              => /\ a \in DOMAIN listeners'
                                 /\ listeners'[a] =
                                        SelectSeq(listeners[a], LAMBDA l : l.fn /= cb)
                        /\ SameButFor(listeners, listeners', a)
                        /\ a \notin DOMAIN listeners => listeners' = listeners)
        /\ ENABLED (/\ ClientOff(a, "")
                    /\ ListenersOf(listeners', a) = {}
                    /\ SameButFor(listeners, listeners', a)
                    /\ a \notin DOMAIN listeners => listeners' = listeners)

\* the functions called for the message delivered next are those registered for
\* its action or for '*' when it arrives: each of them is called, and no other
C32_Step ==
    (toWeb /= <<>> /\ toWeb' = Tail(toWeb))
        => LET called == { heard'[k].fn : k \in (Len(heard) + 1)..Len(heard') }
               registered == ListenersOf(listeners, Head(toWeb).action)
                                 \cup ListenersOf(listeners, "*")
           IN  called = { l.fn : l \in registered }

\* C32: after AppBridge.off(action, cb), a callback cb registered with
\* on(action, cb) is not invoked for later messages of that action while the
\* other callbacks of the action stay registered; off(action) without a
\* callback removes every callback of that action; off for an action without
\* listeners changes nothing.
C32_Off == []C32_OffEffect /\ [][C32_Step]_vars

\* C32 witness: cb1 and cb2 heard the first ping; cb1 was then removed with off,
\* and the second ping was heard by cb2 and not by cb1, while cb1 is still
\* registered for pong.
C32_Witness ==
    /\ Delivered = 2
    /\ \A e \in 1..2 : InjectedScripts[e].action = "ping"
    /\ \E k \in HeardBy("cb1") : heard[k].event = 1
    /\ \A k \in HeardBy("cb1") : heard[k].event /= 2
    /\ \A e \in 1..2 : \E k \in HeardBy("cb2") : heard[k].event = e
    /\ \E l \in ListenersOf(listeners, "pong") : l.fn = "cb1"

----------------------------------------------------------------------------
(* restoreStatusBar *)

\* C33: after any sequence of setStatusBar requests, restoreStatusBar restores
\* the status bar to its original state: it applies, and reports in restored,
\* the state from before the first setStatusBar call (hidden: false, style:
\* 'default'), not the values given by later setStatusBar calls.
C33_RestoresOriginal ==
    \A k \in DOMAIN responded :
        responded[k].action = "restoreStatusBar"
            => /\ responded[k].data.restored.hidden = FALSE
               /\ responded[k].data.restored.style = "default"
               /\ responded[k].statusBar.hidden = FALSE
               /\ responded[k].statusBar.style = "default"

----------------------------------------------------------------------------
(* One injected script, one call of each callback *)

\* how often the function fn is in the array of the key
TimesIn(ls, key, fn) ==
    IF key \in DOMAIN ls THEN Cardinality({ j \in DOMAIN ls[key] : ls[key][j].fn = fn }) ELSE 0

\* the message delivered next calls every callback registered with on for its
\* action once for each of its registrations (those for '*' included)
C34_Step ==
    (toWeb /= <<>> /\ toWeb' = Tail(toWeb) /\ Head(toWeb).action \in DOMAIN listeners)
        => \A l \in ListenersOf(listeners, Head(toWeb).action) :
               l.kind = "on"
                   => Cardinality({ k \in (Len(heard) + 1)..Len(heard') : heard'[k].fn = l.fn })
                          = TimesIn(listeners, Head(toWeb).action, l.fn)
                                + TimesIn(listeners, "*", l.fn)

\* C34: for each sendToWeb(action, payload) delivered to an initialised client,
\* every callback registered with AppBridge.on(action, cb) at that moment is
\* invoked exactly once for that message.
C34_InvokedOnce == [][C34_Step]_vars

----------------------------------------------------------------------------
(* The WebView the bridge is attached to *)

\* C35: after any sequence of WebViewContainer events (mount, load error
\* followed by the error screen and retry, the third empty-body report that
\* re-creates the WebView through webViewKey), whenever a WebView instance is
\* mounted the bridge's attached surface (webViewInstance set by
\* setBridgeWebView) is that mounted instance, so replies and notifications
\* sent with sendToWeb reach the live WebView.
C35_AttachedToMounted == ref /= NoWebView => webViewInstance = ref

----------------------------------------------------------------------------
(* AppBridge.once followed by AppBridge.off *)

\* the message delivered next makes no call of a callback for which off was
\* called with the action of the message after the last once with them
C36_Step ==
    (toWeb /= <<>> /\ toWeb' = Tail(toWeb))
        => \A k \in (Len(heard) + 1)..Len(heard') :
               <<Head(toWeb).action, heard'[k].cb>> \notin removed

\* C36: after AppBridge.once(action, cb) followed by AppBridge.off(action, cb)
\* with the same callback, cb is not invoked for any later message of that
\* action.
C36_OnceThenOff == [][C36_Step]_vars

----------------------------------------------------------------------------
(* The client script run again *)

\* a run of the client script in a window that has an AppBridge leaves the
\* page as it is
C37_Step ==
    appBridge'.runs = appBridge.runs + 1
        => /\ pendingRequests' = pendingRequests
           /\ calls' = calls
           /\ waits' = waits
           /\ listeners' = listeners
           /\ appBridge'.token = appBridge.token
           /\ appBridge'.script = appBridge.script
           /\ appBridge'.nativeListeners = appBridge.nativeListeners

\* C37: running the client script again in a context where window.AppBridge
\* already exists changes nothing: the set of pending requests, their timers,
\* the registered listeners and the token stay as they were, and no second
\* 'nativeMessage' listener is added.
C37_RerunChangesNothing ==
    [](appBridge.script /= 0 /\ appBridge.nativeListeners = 1) /\ [][C37_Step]_vars

\* C37 witness: the second script ran in a page with a pending request, its
\* armed timer and a registered callback; they are still there, and a message
\* delivered afterwards was handled twice, as before.
C37_Witness ==
    /\ appBridge.runs = 2
    /\ appBridge.script = 1
    /\ appBridge.found = [pending |-> 1, timers |-> 1, listeners |-> 1]
    /\ pendingRequests /= EmptyMap
    /\ \E n \in DOMAIN calls : calls[n].timer = "armed"
    /\ Len(heard) = 2
    /\ Delivered = 1

----------------------------------------------------------------------------
(* Invocations and the registry *)

\* an invocation of a request that has not responded can respond, and its
\* timer, when it has one, can fire, whatever the registry holds for its action
\* now: the reply carries the requestId of the invocation, and neither step
\* touches the registry or starts an invocation
C38_CanReply ==
    \A i \in DOMAIN invs :
        (~invs[i].responded /\ invs[i].requestId /= NoId)
            => /\ \A d \in Data :
                      ENABLED (/\ HandlerRespond(i, d)
                               /\ sendLog' = Append(sendLog, RespondEntry(i, d))
                               /\ handlers' = handlers
                               /\ Len(invs') = Len(invs))
               /\ invs[i].timer = "armed"
                     => ENABLED (/\ HandlerTimeout(i)
                                 /\ sendLog' = Append(sendLog,
                                                      RespondEntry(i, TimeoutData(invs[i].action)))
                                 /\ handlers' = handlers
                                 /\ Len(invs') = Len(invs))

\* an invocation starts only when a message is taken from the queue, for the
\* request of that message; the invocations there are keep their request
C38_Step ==
    /\ \A i \in DOMAIN invs :
           /\ i \in DOMAIN invs'
           /\ invs'[i].requestId = invs[i].requestId
           /\ invs'[i].action = invs[i].action
    /\ Len(invs') > Len(invs)
          => /\ toHost /= <<>>
             /\ toHost' = Tail(toHost)
             /\ Len(invs') = Len(invs) + 1
             /\ invs'[Len(invs')].requestId = RequestIdOf(Head(toHost))

\* C38: a handler invocation that has already started keeps its ability to
\* reply: if its action is unregistered, replaced by registerHandler, or
\* removed by clearHandlers before it responds, its later respond call (or its
\* timeout) still sends the reply for its own requestId, and the new
\* registration does not receive that request.
C38_StartedInvocationReplies == []C38_CanReply /\ [][C38_Step]_vars

\* C38 witness: the handler of echo was invoked for the first request, echo was
\* removed from the registry, a second request for echo was answered with
\* 'Unknown action', and after that the first invocation sent the reply for its
\* request.
C38_Witness ==
    /\ handlers = EmptyMap
    /\ Len(invs) = 1
    /\ \E k1, k2 \in DOMAIN sendLog :
           /\ k1 < k2
           /\ sendLog[k1].inv = 0
           /\ sendLog[k1].payload.error = "Unknown action: echo"
           /\ sendLog[k2].inv = 1
           /\ sendLog[k2].injected
           /\ sendLog[k2].payload.requestId = invs[1].requestId
           /\ sendLog[k2].payload.requestId /= sendLog[k1].payload.requestId

----------------------------------------------------------------------------
(* Microphone and camera *)

\* the last microphone or camera request answered is stopRecording: its
\* handler has completed and no startRecording request has followed
C39_StopCompleted ==
    /\ responded /= <<>>
    /\ responded[Len(responded)].action = "stopRecording"

C39_Step ==
    C39_StopCompleted =>
        \A k \in DOMAIN sendLog' : k > Len(sendLog) => sendLog'[k].action /= "onAudioChunk"

\* C39: once the stopRecording handler has completed, no onAudioChunk event
\* is forwarded to the web with sendToWeb (until recording is started
\* again), whatever startRecording and stopRecording requests came before,
\* startRecording twice in a row included
C39_NoChunkAfterStop == [][C39_Step]_vars

\* C40: whatever startCamera and stopCamera requests are made, at most one
\* frame-streaming interval runs at any time
C40_OneInterval == Cardinality(DOMAIN intervals) <= 1

====
